---------------------------- MODULE Spec2Model ----------------------------
(***************************************************************************)
(* Streaming canvas-artifact extraction: the incremental tag scanner       *)
(* (CanvasArtifactParser), the callbacks that wire it to the artifact      *)
(* store (useSendMessage), the store itself (CanvasStore) and its offline  *)
(* restoration pass.                                                       *)
(*                                                                         *)
(* Strings are sequences of one-character strings.  Positions are kept     *)
(* 0-based as in the source; At and Slice translate to TLA+ indexing.      *)
(***************************************************************************)
EXTENDS Integers, Sequences, FiniteSets, TLC

(***************************************************************************)
(* String helpers (JavaScript string primitives used by the source).       *)
(***************************************************************************)
\* const name = v; body: the value v is computed once and named in F
With(v, F(_)) == F(v)

Min(a, b) == IF a < b THEN a ELSE b

Max(a, b) == IF a > b THEN a ELSE b

\* content[i] with a 0-based index
At(s, i) == s[i + 1]

\* String.prototype.slice(a, b) for non-negative arguments
Slice(s, a, b) == SubSeq(s, Min(a, Len(s)) + 1, Min(b, Len(s)))

UpperLetters == <<"A", "B", "C", "D", "E", "F", "G", "H", "I", "J", "K", "L", "M",
                  "N", "O", "P", "Q", "R", "S", "T", "U", "V", "W", "X", "Y", "Z">>

LowerLetters == <<"a", "b", "c", "d", "e", "f", "g", "h", "i", "j", "k", "l", "m",
                  "n", "o", "p", "q", "r", "s", "t", "u", "v", "w", "x", "y", "z">>

Digits == {"0", "1", "2", "3", "4", "5", "6", "7", "8", "9"}

UpperSet == {UpperLetters[k] : k \in 1..26}

LowerOf == [c \in UpperSet |-> LowerLetters[CHOOSE k \in 1..26 : UpperLetters[k] = c]]

\* one character of String.prototype.toLowerCase / of a case-insensitive regex
Lower(c) == IF c \in UpperSet THEN LowerOf[c] ELSE c

ToLowerCase(s) == [k \in 1..Len(s) |-> Lower(s[k])]

\* \w of a JavaScript regular expression
WordChars == UpperSet \cup {LowerLetters[k] : k \in 1..26} \cup Digits \cup {"_"}

\* \s of a JavaScript regular expression, over the characters of the model
WhiteSpace == {" ", "\n", "\t"}

Quotes == {"\"", "'"}

(***************************************************************************)
(* canvas-parser-constants.ts                                              *)
(***************************************************************************)
ARTIFACT_TAG_OPEN == <<"<", "c", "a", "n", "v", "a", "s", "A", "r", "t", "i", "f", "a", "c", "t">>

ARTIFACT_TAG_CLOSE == <<"<", "/", "c", "a", "n", "v", "a", "s", "A", "r", "t", "i", "f", "a", "c", "t", ">">>

CODE_TAG_OPEN == <<"<", "c", "a", "n", "v", "a", "s", "C", "o", "d", "e">>

CODE_TAG_CLOSE == <<"<", "/", "c", "a", "n", "v", "a", "s", "C", "o", "d", "e", ">">>

CONFIG_TAG_OPEN == <<"<", "c", "a", "n", "v", "a", "s", "C", "o", "n", "f", "i", "g", ">">>

CONFIG_TAG_CLOSE == <<"<", "/", "c", "a", "n", "v", "a", "s", "C", "o", "n", "f", "i", "g", ">">>

ATTR_ID == <<"i", "d">>

ATTR_TYPE == <<"t", "y", "p", "e">>

ATTR_TITLE == <<"t", "i", "t", "l", "e">>

ATTR_LANGUAGE == <<"l", "a", "n", "g", "u", "a", "g", "e">>

TYPE_REACT == <<"r", "e", "a", "c", "t">>

TYPE_COMPONENT == <<"c", "o", "m", "p", "o", "n", "e", "n", "t">>

LANG_JSX == <<"j", "s", "x">>

\* the entity forms and the characters they stand for
XML_ESCAPE_MAP == << <<(<<"&", "l", "t", ";">>), "<">>,
                     <<(<<"&", "g", "t", ";">>), ">">>,
                     <<(<<"&", "a", "m", "p", ";">>), "&">>,
                     <<(<<"&", "q", "u", "o", "t", ";">>), "\"">>,
                     <<(<<"&", "#", "3", "9", ";">>), "'">>,
                     <<(<<"&", "a", "p", "o", "s", ";">>), "'">> >>

\* does the literal lit occur in s at 0-based index i (exact case)
LitAt(s, i, lit) ==
    /\ i + Len(lit) <= Len(s)
    /\ \A k \in 1..Len(lit) : s[i + k] = lit[k]

\* the same, ignoring case (regex flag i, or toLowerCase on both sides)
LitAtCI(s, i, lit) ==
    /\ i + Len(lit) <= Len(s)
    /\ \A k \in 1..Len(lit) : Lower(s[i + k]) = Lower(lit[k])

\* first index >= i (1-based) holding a character outside \w, or Len(s)+1
RECURSIVE WordEnd(_, _)
WordEnd(s, i) ==
    IF i > Len(s) \/ s[i] \notin WordChars THEN i ELSE WordEnd(s, i + 1)

\* first index >= i (1-based) holding a quote character, or 0
RECURSIVE QuoteFrom(_, _)
QuoteFrom(s, i) ==
    IF i > Len(s) THEN 0 ELSE IF s[i] \in Quotes THEN i ELSE QuoteFrom(s, i + 1)

\* attributes[name], with undefined and '' both read as the empty string
Attr(attrs, name) == IF name \in DOMAIN attrs THEN attrs[name] ELSE <<>>

\* ATTR_REGEX = /(\w+)=["']([^"']*)["']/g applied repeatedly from index i
RECURSIVE AttrScan(_, _, _)
AttrScan(s, i, acc) ==
    IF i > Len(s) THEN acc
    ELSE IF s[i] \notin WordChars THEN AttrScan(s, i + 1, acc)
    ELSE With(WordEnd(s, i), LAMBDA j :
         With(IF j + 1 <= Len(s) /\ s[j] = "=" /\ s[j + 1] \in Quotes
              THEN QuoteFrom(s, j + 2) ELSE 0, LAMBDA k :
             IF k = 0 THEN AttrScan(s, i + 1, acc)
             ELSE LET name == SubSeq(s, i, j - 1)
                      val == SubSeq(s, j + 2, k - 1)
                  IN  AttrScan(s, k + 1,
                               [n \in (DOMAIN acc) \cup {name} |->
                                   IF n = name THEN val ELSE acc[n]])))

parseAttributes(attrString) == AttrScan(attrString, 1, <<>>)

\* the entity of XML_ESCAPE_MAP that starts at 1-based index i, or 0
EntityAt(s, i) ==
    IF s[i] # "&" THEN 0
    ELSE IF \E e \in 1..Len(XML_ESCAPE_MAP) : LitAt(s, i - 1, XML_ESCAPE_MAP[e][1])
         THEN CHOOSE e \in 1..Len(XML_ESCAPE_MAP) : LitAt(s, i - 1, XML_ESCAPE_MAP[e][1])
         ELSE 0

RECURSIVE UnescapeFrom(_, _)
UnescapeFrom(s, i) ==
    IF i > Len(s) THEN <<>>
    ELSE With(EntityAt(s, i), LAMBDA e :
             IF e = 0 THEN <<s[i]>> \o UnescapeFrom(s, i + 1)
             ELSE <<XML_ESCAPE_MAP[e][2]>>
                      \o UnescapeFrom(s, i + Len(XML_ESCAPE_MAP[e][1])))

unescapeXML(text) == UnescapeFrom(text, 1)

(***************************************************************************)
(* CanvasArtifactParser: tag location primitives.                          *)
(***************************************************************************)
RECURSIVE findTagEnd(_, _)
findTagEnd(content, startPos) ==
    IF startPos >= Len(content) THEN -1
    ELSE IF At(content, startPos) = ">" THEN startPos
    ELSE findTagEnd(content, startPos + 1)

RECURSIVE FindFrom(_, _, _)
FindFrom(content, i, tag) ==
    IF i + Len(tag) > Len(content) THEN -1
    ELSE IF LitAtCI(content, i, tag) THEN i
    ELSE FindFrom(content, i + 1, tag)

findTagIndex(content, startPos, tag) == FindFrom(content, Max(0, startPos), tag)

RECURSIVE PartialFrom(_, _, _, _)
PartialFrom(content, safeStartPos, tag, len) ==
    IF len <= 0 THEN -1
    ELSE LET start == Len(content) - len
         IN  IF start < safeStartPos
             THEN PartialFrom(content, safeStartPos, tag, len - 1)
             ELSE IF LitAtCI(content, start, Slice(tag, 0, len))
                  THEN start
                  ELSE PartialFrom(content, safeStartPos, tag, len - 1)

\* a scanner that never holds a tail back
getPartialTagStartNever(content, startPos, tag) == -1

getPartialTagStart(content, startPos, tag) ==
    LET safeStartPos == Max(0, startPos)
        maxLen == Min(Len(tag) - 1, Len(content) - safeStartPos)
    IN  PartialFrom(content, safeStartPos, tag, maxLen)

\* content.slice(pos).search(/\S/)
RECURSIVE NonSpaceFrom(_, _)
NonSpaceFrom(s, i) ==
    IF i > Len(s) THEN -1
    ELSE IF s[i] \notin WhiteSpace THEN i - 1
    ELSE NonSpaceFrom(s, i + 1)

searchNonSpace(s) == NonSpaceFrom(s, 1)


(***************************************************************************)
(* Optional values (null / undefined): the empty sequence or a singleton.  *)
(***************************************************************************)
None == <<>>

Some(x) == <<x>>

\* String.prototype.trim / JSON white space, over the characters of the model
RECURSIVE TrimLeft(_)
TrimLeft(s) == IF s # <<>> /\ Head(s) \in WhiteSpace THEN TrimLeft(Tail(s)) ELSE s

RECURSIVE TrimRight(_)
TrimRight(s) ==
    IF s # <<>> /\ s[Len(s)] \in WhiteSpace THEN TrimRight(SubSeq(s, 1, Len(s) - 1)) ELSE s

Trim(s) == TrimRight(TrimLeft(s))

\* JSON.parse: None when it throws, Some(value) otherwise.  The JSON texts
\* that can be written with the characters of the model's messages are the
\* empty object, the empty array, unsigned integers, escape-free strings
\* and the three literals; the value is represented by its canonical text.
JsonValue(t) ==
    LET n == Len(t)
    IN  IF n = 0 THEN None
        ELSE IF t[1] = "{" /\ n >= 2 /\ t[n] = "}" /\ Trim(SubSeq(t, 2, n - 1)) = <<>>
             THEN Some(<<"{", "}">>)
        ELSE IF t[1] = "[" /\ n >= 2 /\ t[n] = "]" /\ Trim(SubSeq(t, 2, n - 1)) = <<>>
             THEN Some(<<"[", "]">>)
        ELSE IF t[1] = "\"" /\ n >= 2 /\ t[n] = "\""
                /\ \A k \in 2..(n - 1) : t[k] \notin {"\"", "\\", "\n", "\t"}
             THEN Some(t)
        ELSE IF (\A k \in 1..n : t[k] \in Digits) /\ (n = 1 \/ t[1] # "0")
             THEN Some(t)
        ELSE IF t \in {<<"t", "r", "u", "e">>, <<"f", "a", "l", "s", "e">>,
                       <<"n", "u", "l", "l">>}
             THEN Some(t)
        ELSE None

\* a JSON.parse that hands back any text as it is
JsonParseLenient(s) == Some(Trim(s))

JsonParse(s) == JsonValue(Trim(s))

(***************************************************************************)
(* State.                                                                  *)
(***************************************************************************)
VARIABLES
    state,              \* CanvasArtifactParser.state: messageId -> ParserState
    artifacts,          \* CanvasStore.artifacts: messageId -> (id -> CanvasArtifact)
    activeArtifactId,   \* CanvasStore.activeArtifactId (None = null)
    isCanvasVisible,    \* CanvasStore.isCanvasVisible
    initialTab,         \* CanvasStore.initialTab
    now,                \* the clock read by new Date()
    text,               \* the text the transport delivers for each message
    fed,                \* how many characters of text have been delivered
    starts,             \* onArtifactStart payloads, in order
    completes,          \* onArtifactComplete payloads, in order
    codeCompletes,      \* onCodeComplete payloads, in order
    errors,             \* onError payloads, in order
    prevUpd,            \* the onCodeUpdate before the latest one (same artifact)
    curUpd,             \* the latest onCodeUpdate of the artifact in flight
    restoreRuns,        \* restorations run in a row, with no other store write between
    callbacks,          \* CanvasArtifactParser.callbacks: the handlers that are set
    passed,             \* per message, the fragments handed to parse since its reset
    returned,           \* the value the latest parser or store call returned
    saves,              \* the saveArtifactToDb requests and how each one ended
    listeners,          \* CanvasStore.listeners: the subscribed listeners
    calls               \* per listener, what it saw at each call of the latest operation

vars == <<state, artifacts, activeArtifactId, isCanvasVisible, initialTab, now,
          text, fed, starts, completes, codeCompletes, errors, prevUpd, curUpd,
          restoreRuns, callbacks, passed, returned, saves, listeners, calls>>

\* the operation called last and the value it returned (None for void, null
\* and undefined)
Ret(op, value) == [op |-> op, value |-> value]

\* sessionIdRef.current
sessionIdRef == "s1"

\* getState: the ParserState a message starts with
NewParserState(messageId) ==
    [position |-> 0, insideArtifact |-> FALSE, insideCode |-> FALSE,
     insideConfig |-> FALSE, currentArtifact |-> None, currentCode |-> None,
     currentConfig |-> None, fullContent |-> <<>>, messageId |-> messageId]

\* a lookup that ignores the message id once some ParserState exists
getStateShared(stateMap, messageId) ==
    IF DOMAIN stateMap # {}
    THEN stateMap[CHOOSE k \in DOMAIN stateMap : TRUE]
    ELSE NewParserState(messageId)

getState(stateMap, messageId) ==
    IF messageId \in DOMAIN stateMap THEN stateMap[messageId]
    ELSE NewParserState(messageId)

\* Map.set on a function with a growing domain
MapSet(f, k, v) == [x \in (DOMAIN f) \cup {k} |-> IF x = k THEN v ELSE f[x]]

EmptyMap == <<>>

(***************************************************************************)
(* CanvasStore (useCanvasArtifacts.ts), as operators on the record env     *)
(* that carries the store and the observed events through one parse call.  *)
(***************************************************************************)
getArtifact(arts, messageId, artifactId) ==
    IF messageId \in DOMAIN arts /\ artifactId \in DOMAIN arts[messageId]
    THEN Some(arts[messageId][artifactId]) ELSE None

setArtifact(arts, messageId, artifact) ==
    LET withMessage == IF messageId \in DOMAIN arts THEN arts
                       ELSE MapSet(arts, messageId, EmptyMap)
    IN  MapSet(withMessage, messageId,
               MapSet(withMessage[messageId], artifact.id, artifact))

\* the listeners a component can register: the page and a message renderer
ListenerIds == {"page", "renderer"}

\* no listener has been called
NoCalls == [l \in ListenerIds |-> <<>>]

\* a notification that reaches every listener, subscribed or not
notifyEveryone(env) ==
    [env EXCEPT !.calls =
        [l \in ListenerIds |->
            Append(env.calls[l],
                   [artifacts |-> env.artifacts,
                    activeArtifactId |-> env.activeArtifactId,
                    isCanvasVisible |-> env.isCanvasVisible,
                    initialTab |-> env.initialTab])]]

\* notify(): every subscribed listener is called once; a listener reads the
\* store as it is at that moment
notify(env) ==
    [env EXCEPT !.calls =
        [l \in ListenerIds |->
            IF l \in env.listeners
            THEN Append(env.calls[l],
                        [artifacts |-> env.artifacts,
                         activeArtifactId |-> env.activeArtifactId,
                         isCanvasVisible |-> env.isCanvasVisible,
                         initialTab |-> env.initialTab])
            ELSE env.calls[l]]]

(***************************************************************************)
(* The parser callbacks registered by useSendMessage.                      *)
(***************************************************************************)
\* a start that keeps the code of a record the store already holds
onArtifactStartKeepCode(env, metadata) ==
    notify([notify([notify([env EXCEPT
        !.artifacts = setArtifact(@, metadata.messageId,
            [id |-> metadata.id, type |-> metadata.type, title |-> metadata.title,
             code |-> IF getArtifact(env.artifacts, metadata.messageId, metadata.id) # None
                      THEN getArtifact(env.artifacts, metadata.messageId,
                                       metadata.id)[1].code
                      ELSE [language |-> LANG_JSX, content |-> <<>>],
             config |-> None,
             status |-> "creating", isStreaming |-> TRUE,
             messageId |-> metadata.messageId, sessionId |-> sessionIdRef,
             currentVersion |-> 1,
             createdAt |-> env.now, updatedAt |-> env.now])])
      EXCEPT !.activeArtifactId = Some(metadata.id)])
      EXCEPT !.isCanvasVisible = TRUE, !.initialTab = "editor"])

onArtifactStart(env, metadata) ==
    notify([notify([notify([env EXCEPT
        !.artifacts = setArtifact(@, metadata.messageId,
            [id |-> metadata.id, type |-> metadata.type, title |-> metadata.title,
             code |-> [language |-> LANG_JSX, content |-> <<>>],
             config |-> None,
             status |-> "creating", isStreaming |-> TRUE,
             messageId |-> metadata.messageId, sessionId |-> sessionIdRef,
             currentVersion |-> 1,
             createdAt |-> env.now, updatedAt |-> env.now])])
      EXCEPT !.activeArtifactId = Some(metadata.id)])
      EXCEPT !.isCanvasVisible = TRUE, !.initialTab = "editor"])

\* a code update that appends the content to the code of the record
onCodeUpdateAppend(env, data) ==
    IF getArtifact(env.artifacts, data.messageId, data.artifactId) # None
    THEN notify([env EXCEPT !.artifacts = setArtifact(@, data.messageId,
            [getArtifact(env.artifacts, data.messageId, data.artifactId)[1] EXCEPT
                !.code = [language |-> data.language,
                          content |-> @.content \o data.content],
                !.updatedAt = env.now])])
    ELSE env

\* a code update that marks the record ready
onCodeUpdateReady(env, data) ==
    LET artifact == getArtifact(env.artifacts, data.messageId, data.artifactId)
    IN  IF artifact # None
        THEN notify([env EXCEPT !.artifacts = setArtifact(@, data.messageId,
                [artifact[1] EXCEPT
                    !.code = [language |-> data.language, content |-> data.content],
                    !.status = "ready",
                    !.updatedAt = env.now])])
        ELSE env

onCodeUpdate(env, data) ==
    LET artifact == getArtifact(env.artifacts, data.messageId, data.artifactId)
    IN  IF artifact # None
        THEN notify([env EXCEPT !.artifacts = setArtifact(@, data.messageId,
                [artifact[1] EXCEPT
                    !.code = [language |-> data.language, content |-> data.content],
                    !.updatedAt = env.now])])
        ELSE env

onCodeComplete(env, data) == env

\* persistArtifactToDb: the request is sent; it settles after the handler
\* has returned, and a rejection is caught inside persistArtifactToDb
persistArtifactToDb(env, artifact) ==
    [env EXCEPT !.saves = Append(@, [artifact |-> artifact, outcome |-> "pending"])]

onArtifactComplete(env, artifact) ==
    LET existing == getArtifact(env.artifacts, artifact.messageId, artifact.id)
        currentVersion == IF existing # None THEN existing[1].currentVersion + 1 ELSE 1
        updatedArtifact ==
            [id |-> artifact.id, type |-> artifact.type, title |-> artifact.title,
             code |-> artifact.code, config |-> artifact.config,
             status |-> "ready", isStreaming |-> FALSE,
             messageId |-> artifact.messageId, sessionId |-> sessionIdRef,
             currentVersion |-> currentVersion,
             createdAt |-> IF existing # None THEN existing[1].createdAt ELSE env.now,
             updatedAt |-> env.now]
    IN  persistArtifactToDb(
            notify([env EXCEPT
                       !.artifacts = setArtifact(@, artifact.messageId, updatedArtifact)]),
            updatedArtifact)

onError(env, error) == env

(***************************************************************************)
(* this.callbacks.onX?.(...): when the handler is set, the call is         *)
(* observed, then handled; when it is not, nothing happens.                *)
(***************************************************************************)
AllCallbacks == {"onArtifactStart", "onCodeUpdate", "onCodeComplete",
                 "onArtifactComplete", "onError"}

CallArtifactStart(env, metadata) ==
    IF "onArtifactStart" \notin env.callbacks THEN env
    ELSE onArtifactStart([env EXCEPT !.starts = Append(@, metadata),
                                     !.prevUpd = None, !.curUpd = None], metadata)

CallCodeUpdate(env, data) ==
    IF "onCodeUpdate" \notin env.callbacks THEN env
    ELSE onCodeUpdate([env EXCEPT !.prevUpd = env.curUpd, !.curUpd = Some(data)], data)

CallCodeComplete(env, data) ==
    IF "onCodeComplete" \notin env.callbacks THEN env
    ELSE onCodeComplete([env EXCEPT !.codeCompletes = Append(@, data)], data)

CallArtifactComplete(env, artifact) ==
    IF "onArtifactComplete" \notin env.callbacks THEN env
    ELSE onArtifactComplete([env EXCEPT !.completes = Append(@, artifact),
                                        !.prevUpd = None, !.curUpd = None], artifact)

CallError(env, error) ==
    IF "onError" \notin env.callbacks THEN env
    ELSE onError([env EXCEPT !.errors = Append(@, error)], error)

(***************************************************************************)
(* CanvasArtifactParser.parse and its helpers.                             *)
(***************************************************************************)
\* a validation that forgets the title
MissingIdOrType(attributes) ==
    \/ Attr(attributes, ATTR_ID) = <<>>
    \/ Attr(attributes, ATTR_TYPE) = <<>>

\* !attributes.id || !attributes.type || !attributes.title
MissingRequired(attributes) ==
    \/ Attr(attributes, ATTR_ID) = <<>>
    \/ Attr(attributes, ATTR_TYPE) = <<>>
    \/ Attr(attributes, ATTR_TITLE) = <<>>

\* tagStart = -1 stands for an absent tagStart; error is the onError payload
parseArtifactStart(content, startPos) ==
    LET failed(endPos, ts, inc, err) ==
            [success |-> FALSE, endPos |-> endPos, attributes |-> <<>>,
             tagStart |-> ts, incomplete |-> inc, error |-> err]
    IN  With(findTagIndex(content, startPos, ARTIFACT_TAG_OPEN), LAMBDA tagStart :
        IF tagStart = -1 THEN failed(startPos, -1, FALSE, None)
        ELSE
        With(findTagEnd(content, tagStart + Len(ARTIFACT_TAG_OPEN)), LAMBDA tagEnd :
        IF tagEnd = -1 THEN failed(tagStart, tagStart, TRUE, None)
        ELSE
        With(parseAttributes(Slice(content, tagStart + Len(ARTIFACT_TAG_OPEN), tagEnd)),
             LAMBDA attributes :
        IF MissingRequired(attributes)
        THEN failed(tagEnd + 1, -1, FALSE,
                    Some([message |-> "Missing required attributes",
                          position |-> tagStart,
                          context |-> Slice(content, tagStart, tagEnd + 1)]))
        ELSE IF /\ Attr(attributes, ATTR_TYPE) # TYPE_REACT
                /\ Attr(attributes, ATTR_TYPE) # TYPE_COMPONENT
        THEN failed(tagEnd + 1, -1, FALSE,
                    Some([message |-> "Invalid type",
                          position |-> tagStart,
                          context |-> Slice(content, tagStart, tagEnd + 1)]))
        ELSE [success |-> TRUE, endPos |-> tagEnd + 1, attributes |-> attributes,
              tagStart |-> -1, incomplete |-> FALSE, error |-> None])))

parseCodeStart(content, startPos) ==
    With(findTagIndex(content, startPos, CODE_TAG_OPEN), LAMBDA tagStart :
    IF tagStart = -1
    THEN [success |-> FALSE, endPos |-> startPos, language |-> LANG_JSX,
          tagStart |-> -1, incomplete |-> FALSE]
    ELSE
    With(findTagEnd(content, tagStart + Len(CODE_TAG_OPEN)), LAMBDA tagEnd :
    IF tagEnd = -1
    THEN [success |-> FALSE, endPos |-> tagStart, language |-> LANG_JSX,
          tagStart |-> tagStart, incomplete |-> TRUE]
    ELSE
    With(parseAttributes(Slice(content, tagStart + Len(CODE_TAG_OPEN), tagEnd)),
         LAMBDA attributes :
    [success |-> TRUE, endPos |-> tagEnd + 1,
     language |-> IF Attr(attributes, ATTR_LANGUAGE) # <<>>
                  THEN Attr(attributes, ATTR_LANGUAGE) ELSE LANG_JSX,
     tagStart |-> -1, incomplete |-> FALSE])))

\* a completion that resets the artifact and the flags but keeps the code
completeArtifactKeepCode(messageId, st, env) ==
    IF st.currentArtifact = None THEN [st |-> st, env |-> env]
    ELSE [st |-> [st EXCEPT !.insideArtifact = FALSE, !.insideCode = FALSE,
                            !.insideConfig = FALSE, !.currentArtifact = None,
                            !.currentConfig = None],
          env |-> CallArtifactComplete(env,
                      [id |-> st.currentArtifact[1].id,
                       type |-> st.currentArtifact[1].type,
                       title |-> st.currentArtifact[1].title,
                       code |-> [language |-> IF st.currentCode # None
                                                 /\ st.currentCode[1].language # <<>>
                                              THEN st.currentCode[1].language
                                              ELSE LANG_JSX,
                                 content |-> IF st.currentCode # None
                                             THEN st.currentCode[1].content
                                             ELSE <<>>],
                       config |-> IF st.currentConfig # None
                                     /\ st.currentConfig[1].content # <<>>
                                  THEN JsonParse(st.currentConfig[1].content)
                                  ELSE None,
                       messageId |-> messageId])]

\* returns the ParserState and env after completion
completeArtifact(messageId, st, env) ==
    IF st.currentArtifact = None THEN [st |-> st, env |-> env]
    ELSE LET config == IF st.currentConfig # None /\ st.currentConfig[1].content # <<>>
                       THEN JsonParse(st.currentConfig[1].content)
                       ELSE None
             payload ==
                [id |-> st.currentArtifact[1].id,
                 type |-> st.currentArtifact[1].type,
                 title |-> st.currentArtifact[1].title,
                 code |-> [language |-> IF st.currentCode # None
                                           /\ st.currentCode[1].language # <<>>
                                        THEN st.currentCode[1].language ELSE LANG_JSX,
                           content |-> IF st.currentCode # None
                                       THEN st.currentCode[1].content ELSE <<>>],
                 config |-> config,
                 messageId |-> messageId]
         IN  [st |-> [st EXCEPT !.insideArtifact = FALSE, !.insideCode = FALSE,
                                !.insideConfig = FALSE, !.currentArtifact = None,
                                !.currentCode = None, !.currentConfig = None],
              env |-> CallArtifactComplete(env, payload)]

\* One pass of the while loop.  Each mode returns the ParserState, the
\* cursor, the env and whether the pass ended in break.
Pass(st, pos, env, brk) == [st |-> st, pos |-> pos, env |-> env, brk |-> brk]

\* mode 1: not inside an artifact
SearchingPass(messageId, st, pos, env) ==
    With(parseArtifactStart(st.fullContent, pos), LAMBDA result :
    With(IF result.error # None THEN CallError(env, result.error[1]) ELSE env,
         LAMBDA env1 :
    LET content == st.fullContent
        attrs == result.attributes
        metadata == [id |-> Attr(attrs, ATTR_ID), type |-> Attr(attrs, ATTR_TYPE),
                     title |-> Attr(attrs, ATTR_TITLE), messageId |-> messageId]
    IN  IF ~result.success
        THEN IF result.incomplete
             THEN Pass(st, IF result.tagStart # -1 THEN result.tagStart ELSE pos, env1, TRUE)
             ELSE IF result.endPos > pos
             THEN Pass(st, result.endPos, env1, FALSE)
             ELSE With(getPartialTagStart(content, 0, ARTIFACT_TAG_OPEN),
                       LAMBDA partialStart :
                       Pass(st, IF partialStart # -1 THEN partialStart ELSE Len(content),
                            env1, TRUE))
        ELSE Pass([st EXCEPT !.currentArtifact =
                                 Some([id |-> metadata.id, type |-> metadata.type,
                                       title |-> metadata.title]),
                             !.insideArtifact = TRUE],
                  result.endPos,
                  CallArtifactStart(env1, metadata),
                  FALSE)))

\* Math.min over the partial starts that are not -1, or -1 when there is none
MinPartial(starts3) ==
    LET found == {starts3[k] : k \in 1..Len(starts3)} \ {-1}
    IN  IF found = {} THEN -1 ELSE CHOOSE m \in found : \A x \in found : m <= x

\* mode 2: inside an artifact, outside code and config
ArtifactPass(messageId, st, pos, env) ==
    With(parseCodeStart(st.fullContent, pos), LAMBDA codeResult :
    IF codeResult.incomplete
    THEN Pass(st, IF codeResult.tagStart # -1 THEN codeResult.tagStart ELSE pos,
              env, TRUE)
    ELSE IF codeResult.success
    THEN Pass([st EXCEPT !.currentCode =
                             Some([language |-> codeResult.language,
                                   content |-> <<>>,
                                   startPosition |-> codeResult.endPos]),
                         !.insideCode = TRUE],
              codeResult.endPos, env, FALSE)
    ELSE
    With(findTagIndex(st.fullContent, pos, CONFIG_TAG_OPEN), LAMBDA configStart :
    With(findTagIndex(st.fullContent, pos, ARTIFACT_TAG_CLOSE), LAMBDA artifactEnd :
    IF configStart # -1 /\ configStart < artifactEnd
    THEN Pass([st EXCEPT !.currentConfig = Some([content |-> <<>>]),
                         !.insideConfig = TRUE],
              configStart + Len(CONFIG_TAG_OPEN), env, FALSE)
    ELSE IF artifactEnd # -1
    THEN With(completeArtifact(messageId, st, env), LAMBDA done :
              Pass(done.st, artifactEnd + Len(ARTIFACT_TAG_CLOSE), done.env, FALSE))
    ELSE With(MinPartial(<<getPartialTagStart(st.fullContent, 0, CODE_TAG_OPEN),
                           getPartialTagStart(st.fullContent, 0, CONFIG_TAG_OPEN),
                           getPartialTagStart(st.fullContent, 0, ARTIFACT_TAG_CLOSE)>>),
              LAMBDA partialStart :
              Pass(st, IF partialStart # -1 THEN partialStart ELSE Len(st.fullContent),
                   env, TRUE)))))

\* a close of the code block that clears the wrong flag
CloseCodeLeavingArtifact(st, codeContent) ==
    [st EXCEPT !.currentCode = IF st.currentCode # None
                               THEN Some([st.currentCode[1] EXCEPT
                                             !.content = codeContent])
                               ELSE None,
               !.insideArtifact = FALSE]

\* the close tag of the code block was found: the ParserState leaves code mode
CloseCode(st, codeContent) ==
    [st EXCEPT !.currentCode = IF st.currentCode # None
                               THEN Some([st.currentCode[1] EXCEPT
                                             !.content = codeContent])
                               ELSE None,
               !.insideCode = FALSE]

\* mode 3: inside a code block
CodePass(messageId, st, pos, env) ==
    LET content == st.fullContent
        startPosition == IF st.currentCode # None THEN st.currentCode[1].startPosition
                         ELSE 0
        updating == st.currentCode # None /\ st.currentArtifact # None
    IN  With(findTagIndex(content, pos, CODE_TAG_CLOSE), LAMBDA codeEnd :
        IF codeEnd = -1
        THEN \* the close tag is not in the buffer: report the code so far
             With(getPartialTagStart(content, startPosition, CODE_TAG_CLOSE),
                  LAMBDA partialCloseStart :
             With(Slice(content, startPosition,
                        IF partialCloseStart # -1 THEN partialCloseStart
                        ELSE Len(content)),
                  LAMBDA currentContent :
             Pass(IF updating
                  THEN [st EXCEPT !.currentCode =
                           Some([st.currentCode[1] EXCEPT !.content = currentContent])]
                  ELSE st,
                  IF partialCloseStart # -1 THEN partialCloseStart ELSE Len(content),
                  IF updating
                  THEN CallCodeUpdate(env,
                           [messageId |-> messageId,
                            artifactId |-> st.currentArtifact[1].id,
                            language |-> st.currentCode[1].language,
                            content |-> unescapeXML(currentContent)])
                  ELSE env,
                  TRUE)))
        ELSE \* the close tag was found
             With(unescapeXML(Slice(content, startPosition, codeEnd)),
                  LAMBDA codeContent :
             With(CloseCode(st, codeContent), LAMBDA stClosed :
             With(IF st.currentCode # None
                  THEN CallCodeComplete(env, [language |-> st.currentCode[1].language,
                                              content |-> codeContent])
                  ELSE env,
                  LAMBDA envClosed :
             With(codeEnd + Len(CODE_TAG_CLOSE), LAMBDA posClosed :
             With(findTagIndex(content,
                               posClosed + searchNonSpace(Slice(content, posClosed,
                                                                Len(content))),
                               ARTIFACT_TAG_CLOSE),
                  LAMBDA artifactEnd :
             IF artifactEnd # -1
             THEN With(completeArtifact(messageId, stClosed, envClosed), LAMBDA done :
                       Pass(done.st, artifactEnd + Len(ARTIFACT_TAG_CLOSE), done.env,
                            FALSE))
             ELSE Pass(stClosed, posClosed, envClosed, FALSE)))))))

\* mode 4: inside a config block
ConfigPass(messageId, st, pos, env) ==
    LET content == st.fullContent
        setConfig(c) == IF st.currentConfig # None
                        THEN [st EXCEPT !.currentConfig = Some([content |-> c])]
                        ELSE st
    IN  With(findTagIndex(content, pos, CONFIG_TAG_CLOSE), LAMBDA configEnd :
        IF configEnd = -1
        THEN With(getPartialTagStart(content, 0, CONFIG_TAG_CLOSE),
                  LAMBDA partialCloseStart :
                  Pass(setConfig(Slice(content, pos, Len(content))),
                       IF partialCloseStart # -1 THEN partialCloseStart
                       ELSE Len(content),
                       env, TRUE))
        ELSE With([setConfig(Slice(content, pos, configEnd)) EXCEPT
                      !.insideConfig = FALSE],
                  LAMBDA stClosed :
             With(configEnd + Len(CONFIG_TAG_CLOSE), LAMBDA posClosed :
             With(findTagIndex(content, posClosed, ARTIFACT_TAG_CLOSE),
                  LAMBDA artifactEnd :
             IF artifactEnd # -1 /\ artifactEnd = posClosed
             THEN With(completeArtifact(messageId, stClosed, env), LAMBDA done :
                       Pass(done.st, artifactEnd + Len(ARTIFACT_TAG_CLOSE), done.env,
                            FALSE))
             ELSE Pass(stClosed, posClosed, env, FALSE)))))

\* the mode the flags of a ParserState select
Mode(st) ==
    IF ~st.insideArtifact THEN "SEARCHING"
    ELSE IF ~st.insideCode /\ ~st.insideConfig THEN "ARTIFACT"
    ELSE IF st.insideCode THEN "CODE"
    ELSE "CONFIG"

\* a searching pass that reports a rejected tag and stays where it is
SearchingPassStuck(messageId, st, pos, env) ==
    With(parseArtifactStart(st.fullContent, pos), LAMBDA result :
         IF result.error # None
         THEN Pass(st, pos, CallError(env, result.error[1]), FALSE)
         ELSE SearchingPass(messageId, st, pos, env))

\* a searching pass that gives up when nobody listens for onArtifactStart
SearchingPassIfHandled(messageId, st, pos, env) ==
    IF "onArtifactStart" \in env.callbacks
    THEN SearchingPass(messageId, st, pos, env)
    ELSE Pass(st, Len(st.fullContent), env, TRUE)

\* mode 1 as the loop runs it
SearchingStep(messageId, st, pos, env) == SearchingPass(messageId, st, pos, env)

\* the body of the while loop: one pass in the mode of the ParserState
OnePass(messageId, st, pos, env) ==
    IF Mode(st) = "SEARCHING" THEN SearchingStep(messageId, st, pos, env)
    ELSE IF Mode(st) = "ARTIFACT" THEN ArtifactPass(messageId, st, pos, env)
    ELSE IF Mode(st) = "CODE" THEN CodePass(messageId, st, pos, env)
    ELSE ConfigPass(messageId, st, pos, env)

\* while (pos < content.length) { ... }
RECURSIVE ParseLoop(_, _, _, _)
ParseLoop(messageId, st, pos, env) ==
    IF pos >= Len(st.fullContent) THEN Pass(st, pos, env, FALSE)
    ELSE With(OnePass(messageId, st, pos, env),
              LAMBDA p : IF p.brk THEN p
                         ELSE ParseLoop(messageId, p.st, p.pos, p.env))

\* the passes one call of the loop makes, at most fuel of them: for each the
\* mode and cursor it starts with, the cursor it ends with, whether it ended
\* in break, the ParserState it starts from, and the ParserState and env it
\* leaves
RECURSIVE ScanTrace(_, _, _, _, _)
ScanTrace(messageId, st, pos, env, fuel) ==
    IF pos >= Len(st.fullContent) \/ fuel = 0 THEN <<>>
    ELSE With(OnePass(messageId, st, pos, env), LAMBDA p :
              <<[mode |-> Mode(st), pos |-> pos, next |-> p.pos, brk |-> p.brk,
                 nextMode |-> Mode(p.st), before |-> st, st |-> p.st,
                 env |-> p.env]>>
              \o (IF p.brk THEN <<>>
                  ELSE ScanTrace(messageId, p.st, p.pos, p.env, fuel - 1)))

\* a parse that keeps only the latest fragment as the buffer
parseLatestOnly(stateMap, messageId, newContent, env) ==
    With([getState(stateMap, messageId) EXCEPT !.fullContent = newContent],
         LAMBDA st1 :
    With(ParseLoop(messageId, st1, st1.position, env), LAMBDA p :
         [st |-> [p.st EXCEPT !.position = p.pos], env |-> p.env,
          ret |-> p.st.fullContent]))

\* a parse that returns only the part of the buffer the cursor has passed
parseReturnConsumed(stateMap, messageId, newContent, env) ==
    With([getState(stateMap, messageId) EXCEPT !.fullContent = @ \o newContent],
         LAMBDA st1 :
    With(ParseLoop(messageId, st1, st1.position, env), LAMBDA p :
         [st |-> [p.st EXCEPT !.position = p.pos], env |-> p.env,
          ret |-> Slice(p.st.fullContent, 0, p.pos)]))

\* parse(messageId, newContent): the ParserState stored for the message, the
\* env after the call and the value returned (content, the whole buffer)
parse(stateMap, messageId, newContent, env) ==
    With([getState(stateMap, messageId) EXCEPT !.fullContent = @ \o newContent],
         LAMBDA st1 :
    With(ParseLoop(messageId, st1, st1.position, env), LAMBDA p :
         [st |-> [p.st EXCEPT !.position = p.pos], env |-> p.env,
          ret |-> p.st.fullContent]))

(***************************************************************************)
(* CanvasStore.restoreArtifactsFromMessage(s): the offline pass.           *)
(***************************************************************************)
ID_EQ == <<"i", "d", "=">>

TITLE_EQ == <<"t", "i", "t", "l", "e", "=">>

LANGUAGE_EQ == <<"l", "a", "n", "g", "u", "a", "g", "e", "=">>

\* [^>]* can span the 0-based range [i, j)
NoGt(s, i, j) == \A k \in i..(j - 1) : At(s, k) # ">"

\* the largest member of a non-empty set of integers (a greedy quantifier
\* tries the longest span first)
Largest(S) == CHOOSE m \in S : \A x \in S : x <= m

\* key=["']([^"']+)["'] at 0-based index p: the index of the closing quote,
\* or -1 when the pattern does not match there
QuotedAt(s, p, key) ==
    IF ~(LitAtCI(s, p, key) /\ p + Len(key) < Len(s) /\ At(s, p + Len(key)) \in Quotes)
    THEN -1
    ELSE With(QuoteFrom(s, p + Len(key) + 2) - 1, LAMBDA q :
              IF q > p + Len(key) + 1 THEN q ELSE -1)

\* title=["']([^"']+)["'][^>]*>([\s\S]*?)<\/canvasArtifact> matched with
\* title= at 0-based index p2
TitleMatchAt(s, p2) ==
    With(QuotedAt(s, p2, TITLE_EQ), LAMBDA q2 :
    IF q2 = -1 THEN None
    ELSE
    With(findTagEnd(s, q2 + 1), LAMBDA g :
    IF g = -1 THEN None
    ELSE
    With(findTagIndex(s, g + 1, ARTIFACT_TAG_CLOSE), LAMBDA e :
    IF e = -1 THEN None
    ELSE Some([title |-> Slice(s, p2 + Len(TITLE_EQ) + 1, q2),
               inner |-> Slice(s, g + 1, e),
               end |-> e + Len(ARTIFACT_TAG_CLOSE)]))))

\* the rest of artifactRegex after the id group closed at index q1:
\* [^>]*title=["']([^"']+)["'][^>]*>([\s\S]*?)<\/canvasArtifact>
ArtifactTail(s, q1) ==
    With({p2 \in (q1 + 1)..(Len(s) - 1) :
             /\ LitAtCI(s, p2, TITLE_EQ) /\ NoGt(s, q1 + 1, p2)
             /\ TitleMatchAt(s, p2) # None},
         LAMBDA cands :
         IF cands = {} THEN None ELSE TitleMatchAt(s, Largest(cands)))

\* id=["']([^"']+)["'] and the rest of artifactRegex, with id= at index p1
IdMatchAt(s, p1) ==
    With(QuotedAt(s, p1, ID_EQ), LAMBDA q1 :
    IF q1 = -1 THEN None
    ELSE
    With(ArtifactTail(s, q1), LAMBDA tail :
    IF tail = None THEN None
    ELSE Some([id |-> Slice(s, p1 + Len(ID_EQ) + 1, q1),
               title |-> tail[1].title, inner |-> tail[1].inner,
               end |-> tail[1].end])))

\* artifactRegex matched with the tag literal at 0-based index start
ArtifactMatchAt(s, start) ==
    IF ~LitAtCI(s, start, ARTIFACT_TAG_OPEN) THEN None
    ELSE With({p1 \in (start + Len(ARTIFACT_TAG_OPEN))..(Len(s) - 1) :
                  /\ LitAtCI(s, p1, ID_EQ)
                  /\ NoGt(s, start + Len(ARTIFACT_TAG_OPEN), p1)
                  /\ IdMatchAt(s, p1) # None},
              LAMBDA cands :
              IF cands = {} THEN None ELSE IdMatchAt(s, Largest(cands)))

\* artifactRegex.exec(content) with lastIndex = from: the leftmost match
RECURSIVE ArtifactExec(_, _)
ArtifactExec(s, from) ==
    IF from + Len(ARTIFACT_TAG_OPEN) > Len(s) THEN None
    ELSE With(ArtifactMatchAt(s, from), LAMBDA m :
              IF m # None THEN m ELSE ArtifactExec(s, from + 1))

\* language=["']?(\w+)["']?[^>]*>([\s\S]*?)<\/canvasCode> matched with
\* language= at 0-based index p
LanguageMatchAt(s, p) ==
    LET v == p + Len(LANGUAGE_EQ)
    IN  With(IF v < Len(s) /\ At(s, v) \in Quotes
                /\ v + 1 < Len(s) /\ At(s, v + 1) \in WordChars
             THEN v + 1 ELSE v,
             LAMBDA wordStart :
        With(WordEnd(s, wordStart + 1) - 1, LAMBDA wordStop :
        IF wordStop <= wordStart THEN None
        ELSE
        With(findTagEnd(s, wordStop), LAMBDA gt :
        IF gt = -1 THEN None
        ELSE
        With(findTagIndex(s, gt + 1, CODE_TAG_CLOSE), LAMBDA e :
        IF e = -1 THEN None
        ELSE Some([language |-> Slice(s, wordStart, wordStop),
                   body |-> Slice(s, gt + 1, e)])))))

\* /<canvasCode[^>]*language=["']?(\w+)["']?[^>]*>([\s\S]*?)<\/canvasCode>/i
\* matched with the tag literal at 0-based index start
CodeMatchAt(s, start) ==
    IF ~LitAtCI(s, start, CODE_TAG_OPEN) THEN None
    ELSE With({p \in (start + Len(CODE_TAG_OPEN))..(Len(s) - 1) :
                  /\ LitAtCI(s, p, LANGUAGE_EQ)
                  /\ NoGt(s, start + Len(CODE_TAG_OPEN), p)
                  /\ LanguageMatchAt(s, p) # None},
              LAMBDA cands :
              IF cands = {} THEN None ELSE LanguageMatchAt(s, Largest(cands)))

RECURSIVE CodeExec(_, _)
CodeExec(s, from) ==
    IF from + Len(CODE_TAG_OPEN) > Len(s) THEN None
    ELSE With(CodeMatchAt(s, from), LAMBDA m :
              IF m # None THEN m ELSE CodeExec(s, from + 1))

\* the record one match of artifactRegex stores
RestoredArtifact(messageId, m, clock) ==
    With(CodeExec(m.inner, 0), LAMBDA codeMatch :
    LET language == IF codeMatch # None /\ codeMatch[1].language # <<>>
                    THEN codeMatch[1].language ELSE LANG_JSX
        codeContent == IF codeMatch # None /\ codeMatch[1].body # <<>>
                       THEN codeMatch[1].body ELSE m.inner
    IN  [id |-> m.id, type |-> TYPE_COMPONENT, title |-> m.title,
         code |-> [language |-> language, content |-> Trim(codeContent)],
         config |-> None,
         status |-> "ready", isStreaming |-> FALSE,
         messageId |-> messageId, sessionId |-> "",
         currentVersion |-> 1, createdAt |-> clock, updatedAt |-> clock])

\* the while loop over artifactRegex.exec, from lastIndex = from
RECURSIVE RestoreFrom(_, _, _, _, _)
RestoreFrom(arts, messageId, content, from, clock) ==
    With(ArtifactExec(content, from), LAMBDA m :
         IF m = None THEN arts
         ELSE RestoreFrom(setArtifact(arts, messageId,
                                      RestoredArtifact(messageId, m[1], clock)),
                          messageId, content, m[1].end, clock))

\* a restoration that versions like onArtifactComplete: a record found in the
\* store is replaced by one with its currentVersion plus one
restoreArtifactsVersioned(arts, messageId, content, clock) ==
    LET fresh == RestoreFrom(EmptyMap, messageId, content, 0, clock)
        bump(a) == LET existing == getArtifact(arts, messageId, a.id)
                   IN  IF existing # None
                       THEN [a EXCEPT !.currentVersion = existing[1].currentVersion + 1]
                       ELSE a
        old == IF messageId \in DOMAIN arts THEN arts[messageId] ELSE EmptyMap
    IN  IF messageId \notin DOMAIN fresh THEN arts
        ELSE MapSet(arts, messageId,
                    [id \in (DOMAIN old) \cup (DOMAIN fresh[messageId]) |->
                        IF id \in DOMAIN fresh[messageId]
                        THEN bump(fresh[messageId][id]) ELSE old[id]])

restoreArtifactsFromMessage(arts, messageId, content, clock) ==
    RestoreFrom(arts, messageId, content, 0, clock)

\* messages: a sequence of [id, content]; an absent id is the empty string.
\* A restoration that stored a record notifies (hasChanges of
\* restoreArtifactsFromMessage); hasChanges is the flag of the batch, and
\* the batch notifies once more at its end when the flag is set.
RECURSIVE restoreArtifactsFromMessages(_, _, _, _)
restoreArtifactsFromMessages(env, messages, clock, hasChanges) ==
    IF messages = <<>> THEN (IF hasChanges THEN notify(env) ELSE env)
    ELSE With(Head(messages), LAMBDA message :
         IF message.id # ""
            /\ findTagIndex(message.content, 0, ARTIFACT_TAG_OPEN) # -1
         THEN restoreArtifactsFromMessages(
                  IF ArtifactExec(message.content, 0) # None
                  THEN notify([env EXCEPT !.artifacts =
                                  restoreArtifactsFromMessage(@, message.id,
                                                              message.content, clock)])
                  ELSE env,
                  Tail(messages), clock, TRUE)
         ELSE restoreArtifactsFromMessages(env, Tail(messages), clock, hasChanges))

(***************************************************************************)
(* The messages the transport delivers.  A message text is a sequence of   *)
(* pieces; the transport cuts it into fragments at arbitrary characters.   *)
(***************************************************************************)
OpenA == <<"<", "c", "a", "n", "v", "a", "s", "A", "r", "t", "i", "f", "a", "c", "t", " ", "i", "d", "=", "\"", "a", "\"", " ", "t", "y", "p", "e", "=", "\"", "r", "e", "a", "c", "t", "\"", " ", "t", "i", "t", "l", "e", "=", "\"", "t", "\"", ">">>

OpenB == <<"<", "c", "a", "n", "v", "a", "s", "A", "r", "t", "i", "f", "a", "c", "t", " ", "i", "d", "=", "\"", "b", "\"", " ", "t", "y", "p", "e", "=", "\"", "c", "o", "m", "p", "o", "n", "e", "n", "t", "\"", " ", "t", "i", "t", "l", "e", "=", "\"", "u", "\"", ">">>

OpenNoTitle == <<"<", "c", "a", "n", "v", "a", "s", "A", "r", "t", "i", "f", "a", "c", "t", " ", "i", "d", "=", "\"", "a", "\"", " ", "t", "y", "p", "e", "=", "\"", "r", "e", "a", "c", "t", "\"", ">">>

OpenBadType == <<"<", "c", "a", "n", "v", "a", "s", "A", "r", "t", "i", "f", "a", "c", "t", " ", "i", "d", "=", "\"", "a", "\"", " ", "t", "y", "p", "e", "=", "\"", "v", "u", "e", "\"", " ", "t", "i", "t", "l", "e", "=", "\"", "t", "\"", ">">>

OpenNoId == <<"<", "c", "a", "n", "v", "a", "s", "A", "r", "t", "i", "f", "a", "c", "t", " ", "t", "y", "p", "e", "=", "\"", "r", "e", "a", "c", "t", "\"", " ", "t", "i", "t", "l", "e", "=", "\"", "t", "\"", ">">>

OpenNoType == <<"<", "c", "a", "n", "v", "a", "s", "A", "r", "t", "i", "f", "a", "c", "t", " ", "i", "d", "=", "\"", "a", "\"", " ", "t", "i", "t", "l", "e", "=", "\"", "t", "\"", ">">>

CodeOpen == <<"<", "c", "a", "n", "v", "a", "s", "C", "o", "d", "e", ">">>

CodeOpenLang == <<"<", "c", "a", "n", "v", "a", "s", "C", "o", "d", "e", " ", "l", "a", "n", "g", "u", "a", "g", "e", "=", "\"", "t", "s", "x", "\"", ">">>

BodyPlain == <<"x">>

BodyEntity == <<"a", "&", "l", "t", ";", "b">>

BodyPadded == <<" ", "x", "\n">>

ConfigBody == <<"{", "}">>

Filler == <<"h", "i", " ">>

RECURSIVE Flatten(_)
Flatten(pieces) == IF pieces = <<>> THEN <<>> ELSE Head(pieces) \o Flatten(Tail(pieces))

\* the message shapes, one scenario of the tag grammar each
Shapes == <<
    <<Filler, OpenA, CodeOpenLang, BodyEntity, CODE_TAG_CLOSE, ARTIFACT_TAG_CLOSE, Filler>>,
    <<OpenNoTitle, OpenB, CodeOpen, BodyPadded, CODE_TAG_CLOSE, Filler,
      ARTIFACT_TAG_CLOSE>>,
    <<OpenA, CONFIG_TAG_OPEN, ConfigBody, CONFIG_TAG_CLOSE, CodeOpenLang, BodyPlain,
      CODE_TAG_CLOSE, ARTIFACT_TAG_CLOSE>>,
    <<OpenA, ARTIFACT_TAG_CLOSE, OpenB, CodeOpen, BodyPlain, CODE_TAG_CLOSE,
      ARTIFACT_TAG_CLOSE>>,
    <<OpenA, CodeOpen, BodyPlain, CODE_TAG_CLOSE, ARTIFACT_TAG_CLOSE,
      OpenA, ARTIFACT_TAG_CLOSE>>,
    <<OpenBadType, OpenB, ARTIFACT_TAG_CLOSE>>,
    <<OpenB, CodeOpenLang, BodyPlain, CODE_TAG_CLOSE, ARTIFACT_TAG_CLOSE>>,
    <<OpenA, CONFIG_TAG_OPEN, ConfigBody, CONFIG_TAG_CLOSE, ARTIFACT_TAG_CLOSE>>,
    <<OpenA, CONFIG_TAG_OPEN, ConfigBody, ARTIFACT_TAG_CLOSE>>,
    <<OpenNoId, OpenB, ARTIFACT_TAG_CLOSE>>,
    <<OpenNoType, OpenB, ARTIFACT_TAG_CLOSE>>,
    <<OpenB, CodeOpen, BodyPadded, ToLowerCase(CODE_TAG_CLOSE), ARTIFACT_TAG_CLOSE>>,
    <<OpenA, CONFIG_TAG_OPEN, BodyPlain, CONFIG_TAG_CLOSE, ARTIFACT_TAG_CLOSE>> >>

\* how many of the shapes the transport may deliver
MaxShapes == 13

Texts == {Flatten(Shapes[k]) : k \in 1..Min(MaxShapes, Len(Shapes))}

\* the messages of the conversation, in history order
MessageSeq == <<"m1">>

MessageIds == {MessageSeq[k] : k \in 1..Len(MessageSeq)}

ArtifactIds == {<<"a">>, <<"b">>}

\* the code a user types into the editor panel
EditedCodes == {<<"y">>}

\* the clock stops advancing here
MaxClock == 2

\* how many times in a row history is restored
MaxRestoreRuns == 2

InitStoreAndParser ==
    /\ state = EmptyMap
    /\ artifacts = EmptyMap
    /\ activeArtifactId = None
    /\ isCanvasVisible = FALSE
    /\ initialTab = "preview"
    /\ now = 0
    /\ fed = [m \in MessageIds |-> 0]
    /\ starts = <<>>
    /\ completes = <<>>
    /\ codeCompletes = <<>>
    /\ errors = <<>>
    /\ prevUpd = None
    /\ curUpd = None
    /\ restoreRuns = 0
    /\ listeners = {}
    /\ calls = NoCalls
    /\ callbacks = AllCallbacks
    /\ passed = EmptyMap
    /\ returned = Ret("none", None)
    /\ saves = <<>>

Init ==
    /\ InitStoreAndParser
    /\ text \in [MessageIds -> Texts]

\* the store and the observations, as the record a parse call threads through
EnvOf ==
    [artifacts |-> artifacts, activeArtifactId |-> activeArtifactId,
     isCanvasVisible |-> isCanvasVisible, initialTab |-> initialTab, now |-> now,
     starts |-> starts, completes |-> completes, codeCompletes |-> codeCompletes,
     errors |-> errors, prevUpd |-> prevUpd, curUpd |-> curUpd,
     callbacks |-> callbacks, saves |-> saves,
     listeners |-> listeners, calls |-> NoCalls]

\* an env with an empty store and no observations, for a fresh parser
FreshEnv ==
    [artifacts |-> EmptyMap, activeArtifactId |-> None,
     isCanvasVisible |-> FALSE, initialTab |-> "preview", now |-> 0,
     starts |-> <<>>, completes |-> <<>>, codeCompletes |-> <<>>,
     errors |-> <<>>, prevUpd |-> None, curUpd |-> None,
     callbacks |-> AllCallbacks, saves |-> <<>>,
     listeners |-> {}, calls |-> NoCalls]

SetEnv(env) ==
    /\ artifacts' = env.artifacts
    /\ activeArtifactId' = env.activeArtifactId
    /\ isCanvasVisible' = env.isCanvasVisible
    /\ initialTab' = env.initialTab
    /\ starts' = env.starts
    /\ completes' = env.completes
    /\ codeCompletes' = env.codeCompletes
    /\ errors' = env.errors
    /\ prevUpd' = env.prevUpd
    /\ curUpd' = env.curUpd
    /\ saves' = env.saves
    /\ listeners' = env.listeners
    /\ calls' = env.calls

\* the stream loop of sendMessage: the next chunk of message m, n characters
\* long, is handed to canvasParser.parse
ParseFragment(m, n) ==
    /\ fed[m] + n <= Len(text[m])
    /\ \E r \in {parse(state, m, SubSeq(text[m], fed[m] + 1, fed[m] + n), EnvOf)} :
           /\ state' = MapSet(state, m, r.st)
           /\ SetEnv(r.env)
           /\ returned' = Ret("parse", r.ret)
    /\ passed' = MapSet(passed, m,
                        (IF m \in DOMAIN passed THEN passed[m] ELSE <<>>)
                            \o SubSeq(text[m], fed[m] + 1, fed[m] + n))
    /\ fed' = [fed EXCEPT ![m] = @ + n]
    /\ restoreRuns' = 0
    /\ UNCHANGED <<now, text, callbacks>>

\* time passes between two operations
Tick ==
    /\ now < MaxClock
    /\ now' = now + 1
    /\ UNCHANGED <<state, artifacts, activeArtifactId, isCanvasVisible, initialTab,
                   text, fed, starts, completes, codeCompletes, errors, prevUpd,
                   curUpd, restoreRuns, callbacks, passed, returned, saves,
                   listeners, calls>>

\* ChatPage.handleUpdateCode: the user edits the code of an artifact
HandleUpdateCode(m, artifactId, code) ==
    /\ \E env \in {With(getArtifact(artifacts, m, artifactId), LAMBDA artifact :
                       IF artifact # None
                       THEN notify([EnvOf EXCEPT !.artifacts =
                                       setArtifact(@, m,
                                           [artifact[1] EXCEPT !.code.content = code,
                                                               !.updatedAt = now])])
                       ELSE EnvOf)} :
           /\ artifacts' = env.artifacts
           /\ calls' = env.calls
    /\ restoreRuns' = 0
    /\ UNCHANGED <<state, activeArtifactId, isCanvasVisible, initialTab, now,
                   text, fed, starts, completes, codeCompletes, errors, prevUpd, curUpd,
                   callbacks, passed, returned, saves, listeners>>

\* the persisted messages of the conversation, as loaded from history
History == [k \in 1..Len(MessageSeq) |->
               [id |-> MessageSeq[k], content |-> text[MessageSeq[k]]]]

\* canvasStore.restoreArtifactsFromMessages(history)
RestoreHistory ==
    /\ restoreRuns < MaxRestoreRuns
    /\ \E env \in {restoreArtifactsFromMessages(EnvOf, History, now, FALSE)} :
           /\ artifacts' = env.artifacts
           /\ calls' = env.calls
    /\ restoreRuns' = restoreRuns + 1
    /\ UNCHANGED <<state, activeArtifactId, isCanvasVisible, initialTab, now,
                   text, fed, starts, completes, codeCompletes, errors, prevUpd, curUpd,
                   callbacks, passed, returned, saves, listeners>>

\* canvasStore.clear()
Clear ==
    /\ artifacts' = EmptyMap
    /\ activeArtifactId' = None
    /\ isCanvasVisible' = FALSE
    /\ calls' = notify([EnvOf EXCEPT !.artifacts = EmptyMap,
                                     !.activeArtifactId = None,
                                     !.isCanvasVisible = FALSE]).calls
    /\ restoreRuns' = 0
    /\ UNCHANGED <<state, initialTab, now, text, fed, starts, completes,
                   codeCompletes, errors, prevUpd, curUpd, callbacks, passed,
                   returned, saves, listeners>>

(***************************************************************************)
(* Spec: one streamed response, cut into fragments at arbitrary places,    *)
(* parsed with the callbacks of useSendMessage registered.                 *)
(***************************************************************************)
Next == \E m \in MessageIds : \E n \in 1..Len(text[m]) : ParseFragment(m, n)

Spec == Init /\ [][Next]_vars

(***************************************************************************)
(* SpecTimed: a response that defines the same artifact twice, streamed    *)
(* while the clock advances.                                               *)
(***************************************************************************)
StoreTexts == {Flatten(<<OpenA, ARTIFACT_TAG_CLOSE, OpenA, ARTIFACT_TAG_CLOSE>>)}

InitStore ==
    /\ InitStoreAndParser
    /\ text \in [MessageIds -> StoreTexts]

NextTimed ==
    \/ \E m \in MessageIds : \E n \in 1..Len(text[m]) : ParseFragment(m, n)
    \/ Tick

SpecTimed == InitStore /\ [][NextTimed]_vars

(***************************************************************************)
(* SpecStore: the store over time.  The same response is streamed in       *)
(* fragments of a few sizes while the clock advances, the user edits code, *)
(* history is restored and the store is cleared.                           *)
(***************************************************************************)
StoreFragments == {17, 40, 46, 63}

NextStore ==
    \/ \E m \in MessageIds : \E n \in StoreFragments : ParseFragment(m, n)
    \/ Tick
    \/ \E m \in MessageIds : \E a \in ArtifactIds : \E c \in EditedCodes :
           HandleUpdateCode(m, a, c)
    \/ RestoreHistory
    \/ Clear

SpecStore == InitStore /\ [][NextStore]_vars

(***************************************************************************)
(* SpecApi: the public operations of the parser singleton.  Two responses  *)
(* are streamed at the same time, cut into fragments of a few sizes,       *)
(* while states are reset, the parser is cleared, the pending artifact is  *)
(* asked for and the handlers are replaced.                                *)
(***************************************************************************)
Remove(f, k) == [x \in (DOMAIN f) \ {k} |-> f[x]]

\* resetState(messageId)
ResetState(m) ==
    /\ state' = Remove(state, m)
    /\ passed' = Remove(passed, m)
    /\ returned' = Ret("resetState", None)
    /\ UNCHANGED <<artifacts, activeArtifactId, isCanvasVisible, initialTab, now,
                   text, fed, starts, completes, codeCompletes, errors, prevUpd,
                   curUpd, restoreRuns, callbacks, saves, listeners, calls>>

\* CanvasArtifactParser.clear()
ClearParser ==
    /\ state' = EmptyMap
    /\ passed' = EmptyMap
    /\ returned' = Ret("clear", None)
    /\ UNCHANGED <<artifacts, activeArtifactId, isCanvasVisible, initialTab, now,
                   text, fed, starts, completes, codeCompletes, errors, prevUpd,
                   curUpd, restoreRuns, callbacks, saves, listeners, calls>>

\* getPendingArtifact(messageId): getState stores a ParserState for an id
\* that has none
GetPendingArtifact(m) ==
    /\ state' = MapSet(state, m, getState(state, m))
    /\ returned' = Ret("getPendingArtifact",
                       IF getState(state, m).currentArtifact # None
                          /\ getState(state, m).insideArtifact
                       THEN getState(state, m).currentArtifact
                       ELSE None)
    /\ UNCHANGED <<artifacts, activeArtifactId, isCanvasVisible, initialTab, now,
                   text, fed, starts, completes, codeCompletes, errors, prevUpd,
                   curUpd, restoreRuns, callbacks, passed, saves, listeners, calls>>

\* setCallbacks(callbacks)
SetCallbacks(handlers) ==
    /\ callbacks' = handlers
    /\ returned' = Ret("setCallbacks", None)
    /\ UNCHANGED <<state, artifacts, activeArtifactId, isCanvasVisible, initialTab,
                   now, text, fed, starts, completes, codeCompletes, errors, prevUpd,
                   curUpd, restoreRuns, passed, saves, listeners, calls>>

\* the two messages streamed at the same time
PairIds == {"m1", "m2"}

\* what they carry: an artifact with code, and a rejected tag before an
\* artifact without code
PairTexts == {Flatten(Shapes[7]), Flatten(Shapes[6])}

\* the fragment sizes of the transport; the rest of a text is a fragment too
ApiFragments == {40}

\* the handler sets a caller registers
CallbackSets == {{}, AllCallbacks}

InitApi ==
    /\ state = EmptyMap
    /\ artifacts = EmptyMap
    /\ activeArtifactId = None
    /\ isCanvasVisible = FALSE
    /\ initialTab = "preview"
    /\ now = 0
    /\ text \in [PairIds -> PairTexts]
    /\ fed = [m \in PairIds |-> 0]
    /\ starts = <<>>
    /\ completes = <<>>
    /\ codeCompletes = <<>>
    /\ errors = <<>>
    /\ prevUpd = None
    /\ curUpd = None
    /\ restoreRuns = 0
    /\ listeners = {}
    /\ calls = NoCalls
    /\ callbacks = {}
    /\ passed = EmptyMap
    /\ returned = Ret("none", None)
    /\ saves = <<>>

NextApi ==
    \/ \E m \in PairIds : \E n \in ApiFragments \cup {Len(text[m]) - fed[m]} :
           n >= 1 /\ ParseFragment(m, n)
    \/ \E m \in PairIds : ResetState(m)
    \/ ClearParser
    \/ \E m \in PairIds : GetPendingArtifact(m)
    \/ \E handlers \in CallbackSets : SetCallbacks(handlers)

SpecApi == InitApi /\ [][NextApi]_vars

(***************************************************************************)
(* SpecCallbacks: one response is streamed while the caller replaces the   *)
(* handlers by any subset of the five.                                     *)
(***************************************************************************)
InitCallbacks ==
    /\ InitStoreAndParser
    /\ text \in [MessageIds -> PairTexts]

NextCallbacks ==
    \/ \E m \in MessageIds : \E n \in ApiFragments \cup {Len(text[m]) - fed[m]} :
           n >= 1 /\ ParseFragment(m, n)
    \/ \E handlers \in SUBSET AllCallbacks : SetCallbacks(handlers)

SpecCallbacks == InitCallbacks /\ [][NextCallbacks]_vars

(***************************************************************************)
(* SpecService: the store next to its clients.  One response that defines  *)
(* the same artifact twice is streamed; each save request sent on          *)
(* completion succeeds or fails some time later; the interface asks the    *)
(* store for artifacts, known and unknown, and moves the active id.        *)
(***************************************************************************)
\* CanvasStore.getActiveArtifact; the maps are visited in insertion order,
\* which does not matter while one message at most holds the id
getActiveArtifact(arts, activeId) ==
    IF activeId = None \/ activeId[1] = <<>> THEN None
    ELSE LET holders == {m \in DOMAIN arts : activeId[1] \in DOMAIN arts[m]}
         IN  IF holders = {} THEN None
             ELSE Some(arts[CHOOSE m \in holders : TRUE][activeId[1]])

\* a query that prepares a map for the message it is asked about
GetArtifactCreating(m, artifactId) ==
    /\ returned' = Ret("getArtifact",
                       [args |-> <<m, artifactId>>,
                        result |-> getArtifact(artifacts, m, artifactId)])
    /\ artifacts' = IF m \in DOMAIN artifacts THEN artifacts
                    ELSE MapSet(artifacts, m, EmptyMap)
    /\ UNCHANGED <<state, activeArtifactId, isCanvasVisible, initialTab, now,
                   text, fed, starts, completes, codeCompletes, errors, prevUpd,
                   curUpd, restoreRuns, callbacks, passed, saves, listeners, calls>>

\* canvasStore.getArtifact(messageId, artifactId), as the interface calls it
GetArtifact(m, artifactId) ==
    /\ returned' = Ret("getArtifact",
                       [args |-> <<m, artifactId>>,
                        result |-> getArtifact(artifacts, m, artifactId)])
    /\ UNCHANGED <<state, artifacts, activeArtifactId, isCanvasVisible, initialTab,
                   now, text, fed, starts, completes, codeCompletes, errors, prevUpd,
                   curUpd, restoreRuns, callbacks, passed, saves, listeners, calls>>

\* canvasStore.getActiveArtifact()
GetActiveArtifact ==
    /\ returned' = Ret("getActiveArtifact",
                       [args |-> <<>>,
                        result |-> getActiveArtifact(artifacts, activeArtifactId)])
    /\ UNCHANGED <<state, artifacts, activeArtifactId, isCanvasVisible, initialTab,
                   now, text, fed, starts, completes, codeCompletes, errors, prevUpd,
                   curUpd, restoreRuns, callbacks, passed, saves, listeners, calls>>

\* canvasStore.setActiveArtifactId(id)
SetActiveArtifactId(id) ==
    /\ activeArtifactId' = id
    /\ calls' = notify([EnvOf EXCEPT !.activeArtifactId = id]).calls
    /\ returned' = Ret("setActiveArtifactId", None)
    /\ UNCHANGED <<state, artifacts, isCanvasVisible, initialTab, now, text, fed,
                   starts, completes, codeCompletes, errors, prevUpd, curUpd,
                   restoreRuns, callbacks, passed, saves, listeners>>

\* a failed save that takes the record back out of the store
SaveSettlesRollback(i, ok) ==
    /\ i \in 1..Len(saves) /\ saves[i].outcome = "pending"
    /\ saves' = [saves EXCEPT ![i].outcome = IF ok THEN "saved" ELSE "failed"]
    /\ artifacts' = IF ok THEN artifacts
                    ELSE [artifacts EXCEPT ![saves[i].artifact.messageId] =
                             Remove(@, saves[i].artifact.id)]
    /\ UNCHANGED <<state, activeArtifactId, isCanvasVisible, initialTab, now,
                   text, fed, starts, completes, codeCompletes, errors, prevUpd,
                   curUpd, restoreRuns, callbacks, passed, returned, listeners, calls>>

\* the request of persistArtifactToDb settles: saveArtifactToDb resolves, or
\* it rejects and the catch block logs the error
SaveSettles(i, ok) ==
    /\ i \in 1..Len(saves) /\ saves[i].outcome = "pending"
    /\ saves' = [saves EXCEPT ![i].outcome = IF ok THEN "saved" ELSE "failed"]
    /\ UNCHANGED <<state, artifacts, activeArtifactId, isCanvasVisible, initialTab,
                   now, text, fed, starts, completes, codeCompletes, errors, prevUpd,
                   curUpd, restoreRuns, callbacks, passed, returned, listeners, calls>>

NextService ==
    \/ \E m \in MessageIds : \E n \in StoreFragments : ParseFragment(m, n)
    \/ \E i \in 1..Len(saves) : \E ok \in BOOLEAN : SaveSettles(i, ok)
    \/ \E m \in MessageIds \cup {"unknown"} : \E a \in ArtifactIds :
           GetArtifact(m, a)
    \/ GetActiveArtifact
    \/ \E id \in {None} \cup {Some(a) : a \in ArtifactIds} : SetActiveArtifactId(id)

SpecService == InitStore /\ [][NextService]_vars

(***************************************************************************)
(* SpecListeners: the store and its listeners.  Components subscribe and   *)
(* unsubscribe while a response is streamed in two fragments, the clock    *)
(* advances, the panel is shown and hidden, the active artifact is chosen, *)
(* the store is cleared and the onCodeUpdate handler is called.            *)
(***************************************************************************)
\* canvasStore.subscribe(listener)
Subscribe(l) ==
    /\ listeners' = listeners \cup {l}
    /\ UNCHANGED <<state, artifacts, activeArtifactId, isCanvasVisible, initialTab,
                   now, text, fed, starts, completes, codeCompletes, errors, prevUpd,
                   curUpd, restoreRuns, callbacks, passed, returned, saves, calls>>

\* the function subscribe returned for listener l is called
Unsubscribe(l) ==
    /\ listeners' = listeners \ {l}
    /\ UNCHANGED <<state, artifacts, activeArtifactId, isCanvasVisible, initialTab,
                   now, text, fed, starts, completes, codeCompletes, errors, prevUpd,
                   curUpd, restoreRuns, callbacks, passed, returned, saves, calls>>

\* canvasStore.setIsCanvasVisible(visible, initialTab); tab = None when the
\* second argument is left out
SetIsCanvasVisible(visible, tab) ==
    /\ \E env \in {notify([EnvOf EXCEPT
                                !.isCanvasVisible = visible,
                                !.initialTab = IF visible /\ tab # None
                                               THEN tab[1] ELSE @])} :
           /\ isCanvasVisible' = env.isCanvasVisible
           /\ initialTab' = env.initialTab
           /\ calls' = env.calls
    /\ returned' = Ret("setIsCanvasVisible", None)
    /\ UNCHANGED <<state, artifacts, activeArtifactId, now, text, fed, starts,
                   completes, codeCompletes, errors, prevUpd, curUpd, restoreRuns,
                   callbacks, passed, saves, listeners>>

\* the onCodeUpdate handler registered by useSendMessage is called with data
OnCodeUpdate(data) ==
    /\ \E env \in {onCodeUpdate(EnvOf, data)} :
           /\ artifacts' = env.artifacts
           /\ calls' = env.calls
    /\ returned' = Ret("onCodeUpdate", [args |-> data, result |-> None])
    /\ UNCHANGED <<state, activeArtifactId, isCanvasVisible, initialTab, now, text,
                   fed, starts, completes, codeCompletes, errors, prevUpd, curUpd,
                   restoreRuns, callbacks, passed, saves, listeners>>

NextListeners ==
    \/ \E l \in ListenerIds : Subscribe(l)
    \/ \E l \in ListenerIds : Unsubscribe(l)
    \/ \E m \in MessageIds : \E n \in {Len(OpenA), Len(text[m]) - Len(OpenA)} :
           ParseFragment(m, n)
    \/ Tick
    \/ \E id \in {None, Some(<<"a">>)} : SetActiveArtifactId(id)
    \/ \E visible \in BOOLEAN : \E tab \in {None, Some("preview")} :
           SetIsCanvasVisible(visible, tab)
    \/ Clear
    \/ \E m \in MessageIds \cup {"unknown"} : \E a \in ArtifactIds :
       \E c \in EditedCodes :
           OnCodeUpdate([messageId |-> m, artifactId |-> a, language |-> LANG_JSX,
                         content |-> c])

SpecListeners == InitStore /\ [][NextListeners]_vars

(***************************************************************************)
(* SpecRestore: restoration next to streaming.  A response is streamed in  *)
(* one fragment, the clock advances, and the content of the message is     *)
(* restored from history under its own id or under the id of another       *)
(* message that carries the same content.                                   *)
(***************************************************************************)
\* the contents restored: a code block with a language and entities; the
\* same artifact twice, first with a code block without language; a padded
\* body; an empty body
RestoreTexts ==
    {Flatten(Shapes[1]), Flatten(Shapes[5]),
     Flatten(<<OpenB, CodeOpenLang, BodyPadded, CODE_TAG_CLOSE, ARTIFACT_TAG_CLOSE>>),
     Flatten(<<OpenA, CodeOpenLang, CODE_TAG_CLOSE, ARTIFACT_TAG_CLOSE>>)}

InitRestore ==
    /\ InitStoreAndParser
    /\ text \in [MessageIds -> RestoreTexts]

\* canvasStore.restoreArtifactsFromMessage(messageId, content)
RestoreMessage(messageId, content) ==
    /\ \E env \in {IF ArtifactExec(content, 0) # None
                    THEN notify([EnvOf EXCEPT !.artifacts =
                                    restoreArtifactsFromMessage(@, messageId, content,
                                                                now)])
                    ELSE EnvOf} :
           /\ artifacts' = env.artifacts
           /\ calls' = env.calls
    /\ returned' = Ret("restoreArtifactsFromMessage",
                       [args |-> <<messageId, content>>, result |-> None])
    /\ restoreRuns' = 0
    /\ UNCHANGED <<state, activeArtifactId, isCanvasVisible, initialTab, now, text,
                   fed, starts, completes, codeCompletes, errors, prevUpd, curUpd,
                   callbacks, passed, saves, listeners>>

NextRestore ==
    \/ \E m \in MessageIds : ParseFragment(m, Len(text[m]))
    \/ Tick
    \/ \E m \in MessageIds : \E id \in MessageIds \cup {"m2"} :
           RestoreMessage(id, text[m])

SpecRestore == InitRestore /\ [][NextRestore]_vars

(***************************************************************************)
(* Properties.                                                             *)
(***************************************************************************)
\* the onArtifactComplete payloads of one message, in order
CompletesOf(m) == SelectSeq(completes, LAMBDA c : c.messageId = m)

\* the whole text of message m handed to a fresh parser in one parse call
WholeParse(m) == parse(EmptyMap, m, text[m], FreshEnv)

\* C1: once the whole text of a message has been delivered, in whatever
\* fragments, the sequence of onArtifactComplete payloads equals the one a
\* single parse call on the whole text produces from a fresh ParserState.
C1_ChunkInvariance ==
    \A m \in MessageIds :
        fed[m] = Len(text[m]) => CompletesOf(m) = WholeParse(m).env.completes

\* how many onArtifactComplete calls carried artifact id of message m
CompletionCount(m, id) ==
    Cardinality({k \in 1..Len(completes) :
                    completes[k].messageId = m /\ completes[k].id = id})

\* C2: a record whose latest write is its k-th onArtifactComplete holds
\* currentVersion k: 1 after the first completion, one more after each later.
C2_VersionIsCompletionCount ==
    \A m \in DOMAIN artifacts : \A id \in DOMAIN artifacts[m] :
        artifacts[m][id].status = "ready"
            => artifacts[m][id].currentVersion = CompletionCount(m, id)

\* C3: no operation on the store lowers the currentVersion of a record that
\* exists before and after it.
C3_VersionNeverDecreases ==
    [][\A m \in DOMAIN artifacts : \A id \in DOMAIN artifacts[m] :
           (m \in DOMAIN artifacts' /\ id \in DOMAIN artifacts'[m])
               => artifacts'[m][id].currentVersion >= artifacts[m][id].currentVersion]_vars

\* C4: when a record stored by one completion is replaced by the record of a
\* later completion of the same id in the same message, createdAt is unchanged.
C4_CreatedAtPreserved ==
    [][\A m \in DOMAIN artifacts : \A id \in DOMAIN artifacts[m] :
           (/\ artifacts[m][id].status = "ready"
            /\ m \in DOMAIN artifacts' /\ id \in DOMAIN artifacts'[m]
            /\ artifacts'[m][id].status = "ready"
            /\ CompletionCount(m, id)' > CompletionCount(m, id))
               => artifacts'[m][id].createdAt = artifacts[m][id].createdAt]_vars

IsPrefix(a, b) == Len(a) <= Len(b) /\ SubSeq(b, 1, Len(a)) = a

\* C5: between onArtifactStart and onArtifactComplete of an artifact, every
\* onCodeUpdate reports the content of the previous one or an extension of it.
C5_CodeGrowsMonotonically ==
    (prevUpd # None /\ curUpd # None) => IsPrefix(prevUpd[1].content, curUpd[1].content)

\* the registry with the two timestamps of every record blanked
WithoutTimes(arts) ==
    [m \in DOMAIN arts |->
        [id \in DOMAIN arts[m] |->
            [arts[m][id] EXCEPT !.createdAt = 0, !.updatedAt = 0]]]

\* a restoration that directly follows a restoration of the same batch
SecondRestore == restoreRuns >= 1 /\ restoreRuns' = restoreRuns + 1

\* the ids restoration writes for message m
RestoredIds(m) ==
    LET fresh == restoreArtifactsFromMessage(EmptyMap, m, text[m], now)
    IN  IF m \in DOMAIN fresh THEN DOMAIN fresh[m] ELSE {}

\* C6 as stated: restoring the same batch a second time leaves every field of
\* every record of the registry as the first restoration left it.
C6_RestoreTwiceSameRegistry ==
    [][SecondRestore => artifacts' = artifacts]_vars

\* C6 amended: restoring the same batch a second time leaves the registry as
\* the first restoration left it in every field but createdAt and updatedAt,
\* adds no record, and every record it writes has currentVersion 1.
C6_RestoreTwiceSameButTimes ==
    [][SecondRestore =>
          /\ WithoutTimes(artifacts') = WithoutTimes(artifacts)
          /\ \A m \in MessageIds : \A id \in RestoredIds(m) :
                 artifacts'[m][id].currentVersion = 1]_vars

\* C6: history has been restored twice in a row, the clock having advanced,
\* and the registry holds a restored record
C6_Witness ==
    /\ restoreRuns = 2
    /\ \E m \in DOMAIN artifacts : \E id \in DOMAIN artifacts[m] :
           /\ id \in RestoredIds(m)
           /\ artifacts[m][id].createdAt > 0
           /\ artifacts[m][id].sessionId = ""

\* the fields of a record that the two paths are compared on
Projection(a) ==
    [id |-> a.id, type |-> a.type, title |-> a.title, language |-> a.code.language,
     content |-> a.code.content, status |-> a.status, isStreaming |-> a.isStreaming]

Records(arts, m) ==
    IF m \in DOMAIN arts THEN {Projection(arts[m][id]) : id \in DOMAIN arts[m]} ELSE {}

\* the messages all of whose artifacts are well-formed and hold a code block
WellFormedTexts == {Flatten(Shapes[1]), Flatten(Shapes[3]), Flatten(Shapes[7])}

\* C7: for a complete message with well-formed artifacts, the records
\* restoreArtifactsFromMessage stores equal, in id, type, title, code
\* language, code content, status and isStreaming, the records streaming the
\* same content through parse leaves in the store.
C7_OfflineEqualsStreaming ==
    \A m \in MessageIds :
        (fed[m] = Len(text[m]) /\ text[m] \in WellFormedTexts)
            => Records(restoreArtifactsFromMessage(EmptyMap, m, text[m], now), m)
                   = Records(artifacts, m)

PositionInRange ==
    \A m \in DOMAIN state :
        0 <= state[m].position /\ state[m].position <= Len(state[m].fullContent)

\* C8: after every parse call the position of every message lies between 0
\* and the length of fullContent, and no parse call lowers it.
C8_PositionMonotonicInRange ==
    /\ []PositionInRange
    /\ [][\A m \in DOMAIN state : state'[m].position >= state[m].position]_vars

\* C8: the cursor was advanced and is held back before the end of the buffer
C8_Witness ==
    \E m \in DOMAIN state :
        /\ 0 < state[m].position
        /\ state[m].position < Len(state[m].fullContent)
        /\ fed[m] < Len(text[m])

\* C9: in every ParserState insideCode and insideConfig are not both true,
\* and each of them implies insideArtifact.
C9_ModeFlagsConsistent ==
    \A m \in DOMAIN state :
        /\ ~(state[m].insideCode /\ state[m].insideConfig)
        /\ state[m].insideCode => state[m].insideArtifact
        /\ state[m].insideConfig => state[m].insideArtifact

\* C9: a parse call has left a message inside a config block
C9_Witness ==
    \E m \in DOMAIN state :
        /\ state[m].insideConfig /\ state[m].currentConfig # None
        /\ state[m].insideArtifact /\ ~state[m].insideCode

\* the open tags that parseArtifactStart rejects
MalformedTags == {OpenNoTitle, OpenBadType, OpenNoId, OpenNoType}

\* C10: for a message that begins with a complete malformed open tag g and
\* continues with the valid artifact b, under every fragmentation: no error
\* and no start before g is complete; from then on exactly one onError, for g,
\* and no onArtifactStart other than b's; when exactly g has been delivered
\* the parser is in SEARCHING mode with the cursor just after g's '>'; and
\* when the whole message has been delivered b has been started and completed.
C10_MalformedOpenTag ==
    \A m \in MessageIds : \A g \in MalformedTags :
        IsPrefix(g, text[m]) =>
            /\ fed[m] < Len(g) => errors = <<>> /\ starts = <<>>
            /\ fed[m] >= Len(g) =>
                   /\ Len(errors) = 1
                   /\ errors[1].position = 0 /\ errors[1].context = g
                   /\ state[m].position >= Len(g)
                   /\ \A k \in 1..Len(starts) : starts[k].id = <<"b">>
            /\ fed[m] = Len(g) =>
                   /\ ~state[m].insideArtifact /\ state[m].currentArtifact = None
                   /\ state[m].position = Len(g)
            /\ fed[m] = Len(text[m]) =>
                   /\ Len(starts) = 1
                   /\ Len(completes) = 1 /\ completes[1].id = <<"b">>

\* C10: a malformed open tag was reported once and the valid artifact after
\* it has been started and completed
C10_Witness ==
    \E m \in MessageIds : \E g \in MalformedTags :
        /\ IsPrefix(g, text[m])
        /\ fed[m] = Len(text[m])
        /\ Len(errors) = 1
        /\ Len(completes) = 1 /\ completes[1].id = <<"b">>

\* the first index at or after 0-based p that holds no white space
RECURSIVE SkipSpace(_, _)
SkipSpace(s, p) ==
    IF p < Len(s) /\ At(s, p) \in WhiteSpace THEN SkipSpace(s, p + 1) ELSE p

\* the pass that the next parse call starts with when the parser of m is in
\* code mode and the next n characters complete the buffer to content
CodeCloseCases(P(_, _, _, _)) ==
    \A m \in DOMAIN state : \A n \in 1..(Len(text[m]) - fed[m]) :
        state[m].insideCode =>
            With([state[m] EXCEPT
                     !.fullContent = @ \o SubSeq(text[m], fed[m] + 1, fed[m] + n)],
                 LAMBDA st1 :
            With(findTagIndex(st1.fullContent, st1.position, CODE_TAG_CLOSE),
                 LAMBDA codeEnd :
                 codeEnd # -1 =>
                     P(st1.fullContent, codeEnd + Len(CODE_TAG_CLOSE),
                       CodePass(m, st1, st1.position, EnvOf),
                       LitAtCI(st1.fullContent,
                               SkipSpace(st1.fullContent, codeEnd + Len(CODE_TAG_CLOSE)),
                               ARTIFACT_TAG_CLOSE))))

\* C11: when the close tag of the code is in the buffer of a parse call, the
\* pass that finds it reports onCodeComplete; if the close tag of the artifact
\* follows at once (white space aside) the same pass reports
\* onArtifactComplete, leaves the parser outside the artifact and puts the
\* cursor behind that tag; if it does not follow at once, the pass completes
\* nothing and leaves the cursor behind the close tag of the code.
C11_CloseCheckAtCursorOnly ==
    CodeCloseCases(LAMBDA content, posClosed, p, atCursor :
        /\ Len(p.env.codeCompletes) = Len(codeCompletes) + 1
        /\ atCursor =>
               /\ Len(p.env.completes) = Len(completes) + 1
               /\ ~p.st.insideArtifact /\ ~p.st.insideCode
               /\ p.pos = SkipSpace(content, posClosed) + Len(ARTIFACT_TAG_CLOSE)
        /\ ~atCursor =>
               /\ p.env.completes = completes
               /\ p.st.insideArtifact /\ ~p.st.insideCode
               /\ p.pos = posClosed)

\* the passes the scan loop may make in one call before it is given up as
\* not terminating
MaxPasses == 12

\* the passes of the parse call that hands the next n characters of message m
\* to the parser
NextCallTrace(m, n) ==
    With([getState(state, m) EXCEPT
             !.fullContent = @ \o SubSeq(text[m], fed[m] + 1, fed[m] + n)],
         LAMBDA st1 : ScanTrace(m, st1, st1.position, EnvOf, MaxPasses))

\* C12: every parse call ends: its scan loop makes fewer passes than
\* MaxPasses and stops by a break or at the end of the buffer; every pass
\* breaks, moves the cursor forward or changes the mode; no pass starts with
\* a mode and cursor an earlier pass of the call started with; and the call
\* returns a value (the buffer).
C12_ParseTerminates ==
    /\ \A m \in DOMAIN text : \A n \in 1..(Len(text[m]) - fed[m]) :
           With(NextCallTrace(m, n), LAMBDA tr :
               /\ Len(tr) < MaxPasses
               /\ \A i \in 1..Len(tr) :
                      /\ \/ tr[i].brk
                         \/ tr[i].next > tr[i].pos
                         \/ tr[i].nextMode # tr[i].mode
                      /\ tr[i].brk => i = Len(tr)
                      /\ \A j \in 1..(i - 1) :
                             <<tr[j].mode, tr[j].pos>> # <<tr[i].mode, tr[i].pos>>
               /\ tr # <<>> =>
                      tr[Len(tr)].brk \/ tr[Len(tr)].next >= fed[m] + n)
    /\ returned.op = "parse" => \E k \in DOMAIN passed : returned.value = passed[k]

\* C12: a whole response was parsed in one call whose loop made five passes
\* or more, through code mode and back to searching, and the call returned
\* the buffer
C12_Witness ==
    \E m \in DOMAIN text :
        /\ fed[m] = Len(text[m]) /\ passed[m] = text[m] /\ returned = Ret("parse", text[m])
        /\ With(ScanTrace(m, [NewParserState(m) EXCEPT !.fullContent = text[m]], 0,
                          FreshEnv, MaxPasses),
                LAMBDA tr :
                    /\ Len(tr) >= 5
                    /\ {tr[i].mode : i \in 1..Len(tr)} =
                           {"SEARCHING", "ARTIFACT", "CODE"}
                    /\ tr[Len(tr)].next = Len(text[m]))

\* C13: a parse call for message m returns the fragments handed to parse for
\* m since the ParserState of m was last reset or cleared, concatenated in
\* call order with the new fragment last, tags included; the buffer kept in
\* the ParserState is that same text.
C13_ParseReturnsConcatenation ==
    [][\A m \in DOMAIN text :
           fed'[m] # fed[m] =>
               /\ returned' = Ret("parse",
                                   (IF m \in DOMAIN passed THEN passed[m] ELSE <<>>)
                                       \o SubSeq(text[m], fed[m] + 1, fed'[m]))
               /\ state'[m].fullContent = returned'.value]_vars

\* C13: after a reset in the middle of a response, a parse call returned the
\* fragments handed over since the reset, the close tag of the code among
\* them
C13_Witness ==
    \E m \in DOMAIN passed :
        /\ returned = Ret("parse", passed[m])
        /\ Len(passed[m]) > 0 /\ Len(passed[m]) < fed[m]
        /\ findTagIndex(passed[m], 0, CODE_TAG_CLOSE) # -1
        /\ state[m].fullContent = passed[m]

\* C14: the parser holds a ParserState for a message id exactly when parse
\* has been called for that id since the last resetState of that id and the
\* last clear.
C14_StateExistsIffParsed == DOMAIN state = DOMAIN passed

\* the events after the first n of a log
After(log, n) == SubSeq(log, n + 1, Len(log))

\* C15: a parse call for message m leaves the ParserState of every other
\* message as it was, and what it does to m is what the same call does in a
\* parser that has never seen another message: the same ParserState for m
\* and the same events, in the same order.  Hence the events and the final
\* ParserState of each of two interleaved messages are those of the two
\* messages parsed one after the other.
C15_PerMessageIsolation ==
    [][\A m \in DOMAIN text :
           fed'[m] # fed[m] =>
               /\ DOMAIN state' = DOMAIN state \cup {m}
               /\ \A k \in DOMAIN state \ {m} : state'[k] = state[k]
               /\ With(parse([k \in DOMAIN state \cap {m} |-> state[k]], m,
                             SubSeq(text[m], fed[m] + 1, fed'[m]),
                             [FreshEnv EXCEPT !.callbacks = callbacks]),
                       LAMBDA alone :
                           /\ state'[m] = alone.st
                           /\ returned'.value = alone.ret
                           /\ After(starts', Len(starts)) = alone.env.starts
                           /\ After(completes', Len(completes)) = alone.env.completes
                           /\ After(codeCompletes', Len(codeCompletes))
                                  = alone.env.codeCompletes
                           /\ After(errors', Len(errors)) = alone.env.errors)]_vars

\* C15: two messages are in flight at once, each partly delivered, each with
\* an artifact started, and the parser holds a different buffer for each
C15_Witness ==
    /\ \A m \in PairIds : fed[m] > 0 /\ fed[m] < Len(text[m])
    /\ \A m \in PairIds : \E i \in 1..Len(starts) : starts[i].messageId = m
    /\ DOMAIN state = PairIds
    /\ state["m1"].fullContent # state["m2"].fullContent

\* C17: whatever handlers are set, a parse call leaves the ParserState and
\* returns the value that the same call leaves and returns with all five
\* handlers set and with none set; an event whose handler is set is reported
\* as with all five set, an event whose handler is not set is dropped; with
\* no handler set nothing is reported and the store is not written.
C17_StateIndependentOfCallbacks ==
    [][\A m \in DOMAIN text :
           fed'[m] # fed[m] =>
               With(parse(state, m, SubSeq(text[m], fed[m] + 1, fed'[m]),
                          [EnvOf EXCEPT !.callbacks = AllCallbacks]),
                    LAMBDA all :
               With(parse(state, m, SubSeq(text[m], fed[m] + 1, fed'[m]),
                          [EnvOf EXCEPT !.callbacks = {}]),
                    LAMBDA none :
                   /\ state'[m] = all.st /\ state'[m] = none.st
                   /\ returned'.value = all.ret /\ returned'.value = none.ret
                   /\ starts' = IF "onArtifactStart" \in callbacks
                                THEN all.env.starts ELSE starts
                   /\ completes' = IF "onArtifactComplete" \in callbacks
                                   THEN all.env.completes ELSE completes
                   /\ codeCompletes' = IF "onCodeComplete" \in callbacks
                                       THEN all.env.codeCompletes ELSE codeCompletes
                   /\ errors' = IF "onError" \in callbacks
                                THEN all.env.errors ELSE errors
                   /\ {"onArtifactStart", "onCodeUpdate", "onArtifactComplete"}
                          \subseteq callbacks => curUpd' = all.env.curUpd
                   /\ "onCodeUpdate" \notin callbacks => curUpd' \in {curUpd, None}
                   /\ none.env = [EnvOf EXCEPT !.callbacks = {}]))]_vars

\* C17: with no handler set a response has been parsed up to its end: the
\* parser went through an artifact and came back to searching, nothing was
\* reported and the store is empty
C17_Witness ==
    \E m \in DOMAIN state :
        /\ callbacks = {} /\ returned.op = "parse"
        /\ fed[m] = Len(text[m]) /\ state[m].position = Len(text[m])
        /\ findTagIndex(text[m], 0, CODE_TAG_CLOSE) # -1
        /\ starts = <<>> /\ completes = <<>> /\ errors = <<>>
        /\ artifacts = EmptyMap

\* C18: in the store fed by the streaming path, the record of the artifact
\* the parser of its message is inside of has isStreaming = TRUE (and status
\* creating); every other record has been completed and has status ready and
\* isStreaming = FALSE; no record is ready and streaming at once.
C18_StreamingFlagLifecycle ==
    /\ \A m \in DOMAIN artifacts : \A id \in DOMAIN artifacts[m] :
           LET record == artifacts[m][id]
               inFlight == /\ m \in DOMAIN state
                           /\ state[m].currentArtifact # None
                           /\ state[m].currentArtifact[1].id = id
           IN  /\ ~(record.status = "ready" /\ record.isStreaming)
               /\ inFlight => record.isStreaming /\ record.status = "creating"
               /\ ~inFlight =>
                      /\ record.status = "ready" /\ ~record.isStreaming
                      /\ \E i \in 1..Len(completes) :
                             completes[i].messageId = m /\ completes[i].id = id
    /\ \A k \in DOMAIN state :
           state[k].currentArtifact # None =>
               getArtifact(artifacts, k, state[k].currentArtifact[1].id) # None

\* C18: one artifact has been completed and is ready and not streaming while
\* the next one of the same message is streaming, with code already reported
C18_Witness ==
    \E m \in DOMAIN artifacts :
        /\ DOMAIN artifacts[m] = {<<"a">>, <<"b">>}
        /\ artifacts[m][<<"a">>].status = "ready" /\ ~artifacts[m][<<"a">>].isStreaming
        /\ artifacts[m][<<"b">>].isStreaming
        /\ artifacts[m][<<"b">>].code.content # <<>>
        /\ state[m].insideCode

\* C19: right after every onArtifactStart, that is at the end of the pass
\* that accepted the open tag, the store holds a record for the message and
\* the id of the tag with status creating, empty code and isStreaming TRUE,
\* and no code of that artifact has been reported.
C19_PlaceholderOnStart ==
    \A m \in DOMAIN text : \A n \in 1..(Len(text[m]) - fed[m]) :
        With(NextCallTrace(m, n), LAMBDA tr :
            \A i \in 1..Len(tr) :
                tr[i].mode = "SEARCHING" /\ tr[i].nextMode = "ARTIFACT" =>
                    With(getArtifact(tr[i].env.artifacts, m,
                                     tr[i].st.currentArtifact[1].id),
                         LAMBDA record :
                             /\ tr[i].env.starts # <<>>
                             /\ tr[i].env.starts[Len(tr[i].env.starts)].id
                                    = tr[i].st.currentArtifact[1].id
                             /\ record # None
                             /\ record[1].status = "creating"
                             /\ record[1].code.content = <<>>
                             /\ record[1].isStreaming
                             /\ tr[i].env.curUpd = None))

\* C19: an artifact whose id was completed before with code has been started
\* again, and the parse call ended right there: the record is the empty
\* placeholder
C19_Witness ==
    \E m \in DOMAIN state :
        /\ state[m].insideArtifact /\ ~state[m].insideCode
        /\ state[m].currentCode = None /\ state[m].currentArtifact # None
        /\ \E i \in 1..Len(completes) :
               /\ completes[i].id = state[m].currentArtifact[1].id
               /\ completes[i].code.content # <<>>
        /\ artifacts[m][state[m].currentArtifact[1].id].status = "creating"
        /\ artifacts[m][state[m].currentArtifact[1].id].code.content = <<>>
        /\ artifacts[m][state[m].currentArtifact[1].id].isStreaming

\* C16: a save that fails changes nothing but its own outcome: the store,
\* the record it was sent for, the parser and the reported events stay as
\* they are; and every parse call does to the parser, the store and the
\* events, and returns, what it does when every save so far has succeeded,
\* sending the same save requests.
C16_PersistenceFailureIsolated ==
    [][/\ \A i \in 1..Len(saves) :
              (i <= Len(saves') /\ saves[i].outcome = "pending"
                                /\ saves'[i].outcome = "failed") =>
                  /\ UNCHANGED <<state, artifacts, activeArtifactId, isCanvasVisible,
                                 starts, completes, codeCompletes, errors, fed>>
                  /\ saves'[i].artifact = saves[i].artifact
       /\ \A m \in DOMAIN text :
              fed'[m] # fed[m] =>
                  With(parse(state, m, SubSeq(text[m], fed[m] + 1, fed'[m]),
                             [EnvOf EXCEPT !.saves =
                                 [i \in 1..Len(saves) |->
                                     [saves[i] EXCEPT !.outcome = "saved"]]]),
                       LAMBDA fine :
                           /\ state'[m] = fine.st
                           /\ returned'.value = fine.ret
                           /\ artifacts' = fine.env.artifacts
                           /\ starts' = fine.env.starts
                           /\ completes' = fine.env.completes
                           /\ errors' = fine.env.errors
                           /\ After(saves', Len(saves)) = After(fine.env.saves, Len(saves))
                           /\ \A i \in 1..Len(saves) : saves'[i] = saves[i])]_vars

\* C16: the save sent at the first completion failed, and the rest of the
\* response was parsed: the artifact was completed again, the record of that
\* completion is in the store, ready, and was sent to be saved
C16_Witness ==
    /\ Len(saves) = 2 /\ Len(completes) = 2
    /\ saves[1].outcome = "failed"
    /\ saves[1].artifact.status = "ready"
    /\ \E m \in DOMAIN artifacts :
           /\ artifacts[m][<<"a">>] = saves[2].artifact
           /\ artifacts[m][<<"a">>].status = "ready"
           /\ ~artifacts[m][<<"a">>].isStreaming
           /\ fed[m] = Len(text[m])

\* C20: a store query changes nothing in the store and creates no entry;
\* getArtifact for a message id or an artifact id the store does not hold,
\* and getActiveArtifact with no active id or with one no message holds,
\* return nothing; a query for a record the store holds returns that record.
C20_QueriesArePure ==
    [][(returned' # returned /\ returned'.op \in {"getArtifact", "getActiveArtifact"}) =>
           /\ UNCHANGED <<artifacts, activeArtifactId, isCanvasVisible, initialTab>>
           /\ returned'.op = "getArtifact" =>
                  With(returned'.value.args[1], LAMBDA m :
                  With(returned'.value.args[2], LAMBDA id :
                       IF m \in DOMAIN artifacts /\ id \in DOMAIN artifacts[m]
                       THEN returned'.value.result = Some(artifacts[m][id])
                       ELSE returned'.value.result = None))
           /\ returned'.op = "getActiveArtifact" =>
                  IF /\ activeArtifactId # None
                     /\ \E m \in DOMAIN artifacts : activeArtifactId[1] \in DOMAIN artifacts[m]
                  THEN /\ returned'.value.result # None
                       /\ returned'.value.result[1].id = activeArtifactId[1]
                  ELSE returned'.value.result = None]_vars

\* C20: the store holds a record of message m1, and the store was asked for
\* the active artifact while the active id named no record; the answer was
\* nothing and the store has no entry for the id
C20_Witness ==
    /\ returned = Ret("getActiveArtifact", [args |-> <<>>, result |-> None])
    /\ activeArtifactId = Some(<<"b">>)
    /\ DOMAIN artifacts = {"m1"}
    /\ DOMAIN artifacts["m1"] = {<<"a">>}

\* C21: when a parse call ends with the buffer ending inside the literal of a
\* tag that is legal in the mode the call ends in (the literal starts at t,
\* at or after the cursor the call started from), the saved cursor is t and
\* not the end of the buffer; and once the next fragment has brought the rest
\* of the tag, the ParserState, the store and the reported starts,
\* completions and errors are those obtained when the first call stops right
\* before the tag and the tag arrives in one fragment.
C21_PartialTagHeldBack ==
    [][\A m \in DOMAIN text :
           fed'[m] # fed[m] =>
               \A tag \in {ARTIFACT_TAG_OPEN, ARTIFACT_TAG_CLOSE, CODE_TAG_OPEN,
                           CODE_TAG_CLOSE, CONFIG_TAG_OPEN, CONFIG_TAG_CLOSE} :
               \A t \in Max(fed[m], fed'[m] - Len(tag) + 1)..(fed'[m] - 1) :
                   LitAtCI(text[m], t, tag) =>
                       /\ (\/ Mode(state'[m]) = "SEARCHING" /\ tag = ARTIFACT_TAG_OPEN
                           \/ Mode(state'[m]) = "ARTIFACT"
                                  /\ tag \in {CODE_TAG_OPEN, CONFIG_TAG_OPEN,
                                              ARTIFACT_TAG_CLOSE}
                           \/ Mode(state'[m]) = "CODE" /\ tag = CODE_TAG_CLOSE
                           \/ Mode(state'[m]) = "CONFIG" /\ tag = CONFIG_TAG_CLOSE)
                              => state'[m].position = t
                       /\ With(IF t = fed[m] THEN [st |-> state, env |-> EnvOf]
                               ELSE With(parse(state, m, SubSeq(text[m], fed[m] + 1, t),
                                               EnvOf),
                                         LAMBDA r : [st |-> MapSet(state, m, r.st),
                                                     env |-> r.env]),
                               LAMBDA before :
                          \A e \in {t + Len(tag), Len(text[m])} :
                              With(parse(state', m,
                                         SubSeq(text[m], fed'[m] + 1, e), EnvOf'),
                                   LAMBDA split :
                              With(parse(before.st, m, SubSeq(text[m], t + 1, e),
                                         before.env),
                                   LAMBDA whole :
                                       /\ split.st = whole.st
                                       /\ split.env.artifacts = whole.env.artifacts
                                       /\ split.env.starts = whole.env.starts
                                       /\ split.env.completes = whole.env.completes
                                       /\ split.env.codeCompletes
                                              = whole.env.codeCompletes
                                       /\ split.env.errors = whole.env.errors)))]_vars

\* C21: the buffer ends inside a close tag of the code, the parser is in code
\* mode and its cursor waits at the start of that tail
C21_Witness ==
    \E m \in DOMAIN state :
        /\ state[m].insideCode
        /\ state[m].position < Len(state[m].fullContent)
        /\ Len(state[m].fullContent) - state[m].position >= 2
        /\ LitAtCI(text[m], state[m].position, CODE_TAG_CLOSE)

\* C22: when a pass in artifact mode, for an artifact no code has been seen
\* of, has the close tag of the artifact in the buffer ahead of the cursor,
\* with no open tag of a code or config block before it, the pass completes
\* the artifact with empty code and puts the cursor right behind that close
\* tag, whatever follows the tag in the buffer.
C22_CloseWithoutCode ==
    \A m \in DOMAIN text : \A n \in 1..(Len(text[m]) - fed[m]) :
        With(NextCallTrace(m, n), LAMBDA tr :
            \A i \in 1..Len(tr) :
                LET content == tr[i].st.fullContent
                    close == findTagIndex(content, tr[i].pos, ARTIFACT_TAG_CLOSE)
                    code == findTagIndex(content, tr[i].pos, CODE_TAG_OPEN)
                    config == findTagIndex(content, tr[i].pos, CONFIG_TAG_OPEN)
                IN  (/\ tr[i].mode = "ARTIFACT"
                     /\ tr[i].before.currentCode = None
                     /\ close # -1
                     /\ code = -1 \/ code > close
                     /\ config = -1 \/ config > close)
                    => /\ tr[i].nextMode = "SEARCHING"
                       /\ tr[i].next = close + Len(ARTIFACT_TAG_CLOSE)
                       /\ Len(tr[i].env.completes) > 0
                       /\ tr[i].env.completes[Len(tr[i].env.completes)].id
                              = tr[i].before.currentArtifact[1].id
                       /\ tr[i].env.completes[Len(tr[i].env.completes)].code.content
                              = <<>>)

\* The position of the first occurrence of tag in content at or after from,
\* -1 when there is none: the value of findTagIndex, stated without recursion.
FirstTag(content, from, tag) ==
    With({i \in Max(0, from)..Len(content) : LitAtCI(content, i, tag)}, LAMBDA at :
        IF at = {} THEN -1 ELSE CHOOSE i \in at : \A j \in at : i <= j)

\* C23: once a response whose artifact holds a config block (open tag, body,
\* close tag, then the close tag of the artifact) has been delivered, in
\* whatever fragments, and the body is a JSON object, the artifact has been
\* completed once with config equal to the parsed body.
C23_ConfigParsedUnderEveryFragmentation ==
    \A m \in DOMAIN text :
        fed[m] = Len(text[m]) =>
            With(FirstTag(text[m], 0, CONFIG_TAG_OPEN), LAMBDA open :
            With(FirstTag(text[m], open, CONFIG_TAG_CLOSE), LAMBDA close :
                (/\ open # -1 /\ close # -1
                 /\ FirstTag(text[m], close, ARTIFACT_TAG_CLOSE) # -1) =>
                    With(JsonParse(Slice(text[m], open + Len(CONFIG_TAG_OPEN), close)),
                         LAMBDA parsed :
                             (parsed # None /\ parsed[1][1] = "{") =>
                                 /\ Len(CompletesOf(m)) = 1
                                 /\ CompletesOf(m)[1].config = parsed)))

\* C24: once a response whose artifact holds a config block with a body that
\* is no JSON text has been delivered, the artifact has been completed
\* exactly once, with no config and with the id, type, title and code it is
\* completed with when the config block is cut out of the response; no error
\* has been reported and the parser is back in searching mode.
C24_BadConfigNotFatal ==
    \A m \in DOMAIN text :
        fed[m] = Len(text[m]) =>
            With(FirstTag(text[m], 0, CONFIG_TAG_OPEN), LAMBDA open :
            With(FirstTag(text[m], open, CONFIG_TAG_CLOSE), LAMBDA close :
                (/\ open # -1 /\ close # -1
                 /\ FirstTag(text[m], close, ARTIFACT_TAG_CLOSE) # -1
                 /\ JsonValue(Trim(Slice(text[m], open + Len(CONFIG_TAG_OPEN), close)))
                        = None) =>
                    With(parse(EmptyMap, m,
                               Slice(text[m], 0, open)
                                   \o Slice(text[m], close + Len(CONFIG_TAG_CLOSE),
                                            Len(text[m])),
                               FreshEnv).env.completes,
                         LAMBDA plain :
                             /\ Len(CompletesOf(m)) = 1 /\ Len(plain) = 1
                             /\ CompletesOf(m)[1].config = None
                             /\ CompletesOf(m)[1].id = plain[1].id
                             /\ CompletesOf(m)[1].type = plain[1].type
                             /\ CompletesOf(m)[1].title = plain[1].title
                             /\ CompletesOf(m)[1].code = plain[1].code
                             /\ errors = <<>>
                             /\ Mode(state[m]) = "SEARCHING")))

\* C24: a response with the config body x has been parsed in one call that
\* went through config mode, and its artifact is completed without config
C24_Witness ==
    \E m \in DOMAIN state :
        /\ fed[m] = Len(text[m])
        /\ text[m] = Flatten(<<OpenA, CONFIG_TAG_OPEN, BodyPlain, CONFIG_TAG_CLOSE,
                               ARTIFACT_TAG_CLOSE>>)
        /\ state[m] = WholeParse(m).st
        /\ \E i \in 1..3 :
               ScanTrace(m, [NewParserState(m) EXCEPT !.fullContent = text[m]], 0,
                         FreshEnv, MaxPasses)[i].mode = "CONFIG"
        /\ Len(completes) = 1 /\ completes[1].config = None


\* C25: in every stored ParserState, and after every pass of every parse
\* call, currentArtifact is present exactly when insideArtifact is set; a
\* pass that makes an onArtifactComplete call leaves the three flags false
\* and currentArtifact, currentCode and currentConfig absent, leaves the
\* buffer and the stored position as they were and does not move the cursor
\* back; and a pass that makes an onArtifactStart call starts and ends with
\* no code and no config.
C25_ResetOnComplete ==
    /\ \A k \in DOMAIN state :
           (state[k].currentArtifact # None) <=> state[k].insideArtifact
    /\ \A m \in DOMAIN text : \A n \in 1..(Len(text[m]) - fed[m]) :
           With(NextCallTrace(m, n), LAMBDA tr :
               \A i \in 1..Len(tr) :
                   With(IF i = 1 THEN EnvOf ELSE tr[i - 1].env, LAMBDA env0 :
                       /\ (tr[i].st.currentArtifact # None) <=> tr[i].st.insideArtifact
                       /\ Len(tr[i].env.completes) > Len(env0.completes) =>
                              /\ ~tr[i].st.insideArtifact
                              /\ ~tr[i].st.insideCode
                              /\ ~tr[i].st.insideConfig
                              /\ tr[i].st.currentArtifact = None
                              /\ tr[i].st.currentCode = None
                              /\ tr[i].st.currentConfig = None
                              /\ tr[i].st.fullContent = tr[i].before.fullContent
                              /\ tr[i].st.fullContent # <<>>
                              /\ tr[i].st.position = tr[i].before.position
                              /\ tr[i].next > tr[i].pos
                       /\ Len(tr[i].env.starts) > Len(env0.starts) =>
                              /\ tr[i].before.currentCode = None
                              /\ tr[i].before.currentConfig = None
                              /\ tr[i].st.currentCode = None
                              /\ tr[i].st.currentConfig = None))

\* C25: the second artifact of a message has been started after the first,
\* which had code, was completed; the parser holds no code and no config
C25_Witness ==
    \E m \in DOMAIN state :
        /\ Len(CompletesOf(m)) = 1
        /\ CompletesOf(m)[1].code.content # <<>>
        /\ Len(SelectSeq(starts, LAMBDA e : e.messageId = m)) = 2
        /\ state[m].insideArtifact /\ state[m].currentArtifact # None
        /\ state[m].currentCode = None /\ state[m].currentConfig = None
        /\ state[m].position > 0


\* C26: a call of the onCodeUpdate handler for a record the store holds
\* leaves that record with exactly the language and content of the call as
\* its code and with updatedAt at the time of the call, and with every other
\* field as it was; every other record, the active id, the visibility and
\* the initial tab are as they were, and each subscribed listener has been
\* called once.  A call for a pair the store holds no record of changes
\* nothing in the store and calls no listener.
C26_CodeUpdateFrame ==
    [][(returned' # returned /\ returned'.op = "onCodeUpdate") =>
           With(returned'.value.args, LAMBDA d :
               /\ UNCHANGED <<activeArtifactId, isCanvasVisible, initialTab, listeners>>
               /\ IF d.messageId \in DOMAIN artifacts
                     /\ d.artifactId \in DOMAIN artifacts[d.messageId]
                  THEN /\ DOMAIN artifacts' = DOMAIN artifacts
                       /\ \A m \in DOMAIN artifacts :
                              /\ DOMAIN artifacts'[m] = DOMAIN artifacts[m]
                              /\ \A id \in DOMAIN artifacts[m] :
                                     <<m, id>> # <<d.messageId, d.artifactId>> =>
                                         artifacts'[m][id] = artifacts[m][id]
                       /\ With(artifacts[d.messageId][d.artifactId], LAMBDA old :
                          With(artifacts'[d.messageId][d.artifactId], LAMBDA new :
                               /\ new.code = [language |-> d.language,
                                              content |-> d.content]
                               /\ new.updatedAt = now
                               /\ DOMAIN new = DOMAIN old
                               /\ \A f \in (DOMAIN old) \ {"code", "updatedAt"} :
                                      new[f] = old[f]))
                       /\ \A l \in ListenerIds :
                              Len(calls'[l]) = IF l \in listeners THEN 1 ELSE 0
                  ELSE /\ UNCHANGED artifacts
                       /\ calls' = NoCalls)]_vars

\* C26: the handler was called for a record that held code and was created
\* earlier; the record holds the content of the call, is still being
\* created, and a subscribed listener was called
C26_Witness ==
    /\ returned.op = "onCodeUpdate"
    /\ \E m \in DOMAIN artifacts :
           /\ returned.value.args.messageId = m
           /\ returned.value.args.artifactId \in DOMAIN artifacts[m]
           /\ With(artifacts[m][returned.value.args.artifactId], LAMBDA r :
                  /\ r.code.content = returned.value.args.content
                  /\ r.status = "creating" /\ r.isStreaming
                  /\ r.updatedAt > r.createdAt)
    /\ \E l \in listeners : Len(calls[l]) = 1


\* C27: a call of restoreArtifactsFromMessage(messageId, content) leaves the
\* records of every other message id as they were, and for every place in
\* content where the artifact pattern matches, with no match of the same id
\* further on, the store holds under (messageId, id) a record with the id and
\* title of the match, status ready, not streaming, version 1 and an empty
\* session id, whose code content is the trimmed body of the first code
\* block in the match when the code pattern matches there and the trimmed
\* inner span of the match when it does not.
C27_RestoredRecords ==
    [][(returned' # returned /\ returned'.op = "restoreArtifactsFromMessage") =>
           With(returned'.value.args[1], LAMBDA messageId :
           With(returned'.value.args[2], LAMBDA content :
               /\ \A other \in DOMAIN artifacts :
                      other # messageId =>
                          other \in DOMAIN artifacts'
                          /\ artifacts'[other] = artifacts[other]
               /\ \A from \in 0..Len(content) :
                      With(ArtifactMatchAt(content, from), LAMBDA found :
                          (/\ found # None
                           /\ \A later \in 0..Len(content) :
                                  With(ArtifactMatchAt(content, later), LAMBDA next :
                                      next # None /\ next[1].id = found[1].id
                                          => next[1].end <= found[1].end))
                          => /\ messageId \in DOMAIN artifacts'
                             /\ found[1].id \in DOMAIN artifacts'[messageId]
                             /\ With(artifacts'[messageId][found[1].id], LAMBDA r :
                                With(CodeExec(found[1].inner, 0), LAMBDA codeMatch :
                                    /\ r.id = found[1].id
                                    /\ r.title = found[1].title
                                    /\ r.messageId = messageId
                                    /\ r.status = "ready"
                                    /\ ~r.isStreaming
                                    /\ r.currentVersion = 1
                                    /\ r.sessionId = ""
                                    /\ r.code.content =
                                           IF codeMatch # None
                                           THEN Trim(codeMatch[1].body)
                                           ELSE Trim(found[1].inner))))))]_vars


\* C28: subscribing, unsubscribing and the passing of time call no listener.
\* Every other step is a store operation: it calls no listener that is not
\* subscribed; when it changed the store it called every subscribed
\* listener, and the last thing a called listener saw is the store as the
\* operation left it; one call of setActiveArtifactId, setIsCanvasVisible,
\* clear or of the onCodeUpdate handler calls a subscribed listener at most
\* once, and exactly once when it is seen to have run; a parse call calls
\* every subscribed listener three times for each artifact it starts
\* (setArtifact, setActiveArtifactId, setIsCanvasVisible) and once for each
\* artifact it completes (setArtifact).
C28_ListenersSeePostState ==
    [][IF listeners' # listeners \/ now' # now
       THEN calls' = calls
       ELSE \A l \in ListenerIds :
                IF l \notin listeners
                THEN calls'[l] = <<>>
                ELSE /\ <<artifacts, activeArtifactId, isCanvasVisible, initialTab>>'
                            # <<artifacts, activeArtifactId, isCanvasVisible, initialTab>>
                        => calls'[l] # <<>>
                     /\ calls'[l] # <<>> =>
                            calls'[l][Len(calls'[l])] =
                                [artifacts |-> artifacts',
                                 activeArtifactId |-> activeArtifactId',
                                 isCanvasVisible |-> isCanvasVisible',
                                 initialTab |-> initialTab']
                     /\ IF fed' # fed
                        THEN Len(calls'[l]) = 3 * (Len(starts') - Len(starts))
                                                  + (Len(completes') - Len(completes))
                        ELSE /\ Len(calls'[l]) <= 1
                             /\ (/\ returned' # returned
                                 /\ returned'.op \in {"setActiveArtifactId",
                                                      "setIsCanvasVisible"})
                                    => Len(calls'[l]) = 1]_vars

\* C28: the panel was hidden while only the page was subscribed and the
\* store held a record: the page was called once and saw the hidden panel,
\* the renderer was not called
C28_Witness ==
    /\ listeners = {"page"}
    /\ returned.op = "setIsCanvasVisible"
    /\ ~isCanvasVisible
    /\ artifacts # EmptyMap
    /\ calls["renderer"] = <<>>
    /\ calls["page"] = <<[artifacts |-> artifacts,
                          activeArtifactId |-> activeArtifactId,
                          isCanvasVisible |-> FALSE,
                          initialTab |-> initialTab]>>


\* C29: the response of a message being the only one streamed, in every
\* stored ParserState and before every pass of every parse call the starts
\* outnumber the completions by one when the parser is inside an artifact
\* and by none when it is not.  A pass reports at most one start or one
\* completion, never both; a start only outside an artifact; a completion
\* only inside one, with the id, type and title of the latest start; a code
\* completion or a code update only inside an artifact, the update with the
\* id of the latest start and the message id of the call.
C29_EventsWellNested ==
    /\ \A k \in DOMAIN state :
           Len(starts) - Len(completes) = IF state[k].insideArtifact THEN 1 ELSE 0
    /\ \A m \in DOMAIN text : \A n \in 1..(Len(text[m]) - fed[m]) :
           With(NextCallTrace(m, n), LAMBDA tr :
               \A i \in 1..Len(tr) :
                   With(IF i = 1 THEN EnvOf ELSE tr[i - 1].env, LAMBDA env0 :
                   With(tr[i].env, LAMBDA env1 :
                   With(Len(env0.starts), LAMBDA s0 :
                   With(Len(env0.completes), LAMBDA c0 :
                       /\ s0 - c0 = IF tr[i].before.insideArtifact THEN 1 ELSE 0
                       /\ Len(env1.starts) - s0 \in {0, 1}
                       /\ Len(env1.completes) - c0 \in {0, 1}
                       /\ ~(Len(env1.starts) > s0 /\ Len(env1.completes) > c0)
                       /\ Len(env1.starts) > s0 =>
                              /\ ~tr[i].before.insideArtifact
                              /\ env1.starts[s0 + 1].messageId = m
                       /\ Len(env1.completes) > c0 =>
                              /\ tr[i].before.insideArtifact
                              /\ env1.completes[c0 + 1].id = env0.starts[s0].id
                              /\ env1.completes[c0 + 1].type = env0.starts[s0].type
                              /\ env1.completes[c0 + 1].title = env0.starts[s0].title
                              /\ env1.completes[c0 + 1].messageId = m
                       /\ Len(env1.codeCompletes) > Len(env0.codeCompletes) =>
                              tr[i].before.insideArtifact
                       /\ (/\ Len(env1.starts) = s0 /\ Len(env1.completes) = c0
                           /\ <<env1.prevUpd, env1.curUpd>> # <<env0.prevUpd, env0.curUpd>>)
                          => /\ tr[i].before.insideArtifact
                             /\ env1.curUpd # None
                             /\ env1.curUpd[1].artifactId = env0.starts[s0].id
                             /\ env1.curUpd[1].messageId = m)))))

\* C29: an artifact of one message has been started and completed twice in
\* turn, the first time with a code block, and no third start has been made
C29_Witness ==
    /\ Len(starts) = 2 /\ Len(completes) = 2 /\ Len(codeCompletes) >= 1
    /\ completes[1].id = starts[1].id /\ completes[2].id = starts[2].id
    /\ completes[1].code.content # <<>>
    /\ \A k \in DOMAIN state : ~state[k].insideArtifact


\* C30: while a message is inside a code block, the raw content recorded for
\* the block is the text of the message from the end of the code open tag
\* over the length of that content; it ends at or before the close tag of
\* the block, when the message has one, and no later than the last character
\* delivered; what was delivered after it is a strict prefix of the close
\* tag literal, in any letter case; and the latest onCodeUpdate of the
\* artifact, when there is one, reported that raw content unescaped.
C30_RawCodeIsPrefix ==
    \A m \in DOMAIN state :
        (state[m].insideCode /\ state[m].currentCode # None) =>
            With(state[m].currentCode[1].startPosition, LAMBDA sp :
            With(state[m].currentCode[1].content, LAMBDA raw :
            With(FirstTag(text[m], sp, CODE_TAG_CLOSE), LAMBDA close :
                /\ raw = Slice(text[m], sp, sp + Len(raw))
                /\ sp + Len(raw) <= fed[m]
                /\ close # -1 => sp + Len(raw) <= close
                /\ fed[m] - (sp + Len(raw)) < Len(CODE_TAG_CLOSE)
                /\ LitAtCI(text[m], sp + Len(raw),
                           Slice(CODE_TAG_CLOSE, 0, fed[m] - (sp + Len(raw))))
                /\ IF curUpd = None THEN raw = <<>>
                   ELSE /\ curUpd[1].content = unescapeXML(raw)
                        /\ curUpd[1].messageId = m)))

\* C30: a code block is open, code has been reported, and the last
\* characters delivered, the first of the close tag, are held back
C30_Witness ==
    \E m \in DOMAIN state :
        /\ state[m].insideCode /\ state[m].currentCode # None
        /\ state[m].currentCode[1].content # <<>>
        /\ curUpd # None
        /\ curUpd[1].content = unescapeXML(state[m].currentCode[1].content)
        /\ fed[m] > state[m].currentCode[1].startPosition
                        + Len(state[m].currentCode[1].content) + 1
        /\ state[m].position = state[m].currentCode[1].startPosition
                                   + Len(state[m].currentCode[1].content)
        /\ FirstTag(text[m], state[m].currentCode[1].startPosition, CODE_TAG_CLOSE)
               = state[m].position

=============================================================================
